---- MODULE Spec2Model ----
(***************************************************************************)
(* Model of the arxiv-prism converter core: the text normalizer            *)
(* (converter/text_utils.py), the MathML to LaTeX converter                *)
(* (converter/math_utils.py), the two extraction parsers                   *)
(* (converter/parsers/xml_parser.py, converter/parsers/html_parser.py)     *)
(* and the convert and batch commands (arxiv_prism/cli.py,                 *)
(* converter/cli.py).                                                      *)
(*                                                                         *)
(* Python strings are modelled as sequences of one-character strings, so   *)
(* that concatenation, slicing, stripping and regular-expression           *)
(* substitution are computed character by character.                       *)
(***************************************************************************)
EXTENDS Integers, Sequences, FiniteSets, TLC

VARIABLES
    text,      \* strip_citations: the input text
    tcalls,    \* strip_citations: number of applications made so far (0..2)
    once,      \* strip_citations(text)
    twice,     \* strip_citations(strip_citations(text))
    href,      \* link_to_markdown: first argument
    linkText,  \* link_to_markdown: second argument
    linkOut,   \* link_to_markdown: the value returned, or NotRun
    mathStr,   \* mathml_to_latex: the MathML string, a sequence of markup tokens
    mathOut,   \* mathml_to_latex: the value returned, Raised, or NotRun
    mathLib,   \* mathml_to_latex: the package called, "converter" or "arxiv_prism"
    docKind,   \* parse: "xml" or "html", the parser the document is given to
    doc,       \* parse: the parsed input, <<root element>>, or ParseError
    parsePc,   \* parse: "idle" before the call, "done" after it
    parseOut,  \* parse: the outcome of the call
    calls,     \* parse calls in progress on one parser: calls[i] holds the
               \* document, the position and the local lists of call i
    walk,      \* _get_sections: the loop over the children of one content block
    run        \* one run of a command of the command line

textVars == <<text, tcalls, once, twice>>
linkVars == <<href, linkText, linkOut>>
mathVars == <<mathStr, mathOut, mathLib>>
parseVars == <<docKind, doc, parsePc, parseOut, calls>>
cliVars == <<walk, run>>
vars == <<textVars, linkVars, mathVars, parseVars, cliVars>>

NotRun == "not-run"
\* an exception escaping a call
Raised == "raised"

(***************************************************************************)
(* Bounds of the input spaces.                                             *)
(***************************************************************************)
MaxLen == 3
MaxInner == 3
MaxLinkLen == 2
MaxMathTokens == 3
MaxMathDepth == 3
MaxSecDepth == 3
MaxKids == 2
MaxHtmlSections == 2
MaxScriptKids == 4
MaxFloats == 3
MaxCalls == 2
\* depth of nested _mathml_to_latex_el calls the interpreter's stack allows
RecursionLimit == 2

(***************************************************************************)
(* Character classes of Python's re module and of str.strip().             *)
(***************************************************************************)
Ws == {" ", "\n"}
Digits == {"0", "1", "2", "3", "4", "5", "6", "7", "8", "9"}
Dashes == {"-", "U+2013"}            \* the one-character string U+2013 (en dash)
BracketSeps == {",", "-"}
ParenJunk == {"U+2013", "-", ",", ";"}
CommaSemi == {",", ";"}
Punct == {".", ",", ";", ":"}
PunctClose == {".", ",", ";", ":", ")"}

\* sequences over S of length at most n
RECURSIVE SeqsUpTo(_, _)
SeqsUpTo(S, n) ==
    IF n = 0 THEN {<<>>}
    ELSE LET shorter == SeqsUpTo(S, n - 1)
         IN  shorter \cup {Append(s, c) : s \in {x \in shorter : Len(x) = n - 1}, c \in S}

\* first position j >= i that is past the end of t or holds a character outside S
RECURSIVE RunEnd(_, _, _)
RunEnd(t, i, S) ==
    IF i > Len(t) THEN i
    ELSE IF t[i] \in S THEN RunEnd(t, i + 1, S) ELSE i

At(t, i) == IF i >= 1 /\ i <= Len(t) THEN t[i] ELSE ""

\* str.strip(): drop leading and trailing whitespace
RECURSIVE LStrip(_)
LStrip(t) == IF t # <<>> /\ Head(t) \in Ws THEN LStrip(Tail(t)) ELSE t

RECURSIVE RStrip(_)
RStrip(t) ==
    IF t # <<>> /\ t[Len(t)] \in Ws THEN RStrip(SubSeq(t, 1, Len(t) - 1)) ELSE t

Strip(t) == RStrip(LStrip(t))

(***************************************************************************)
(* The regular expressions of strip_citations.  Each MatchX(t, i) is the   *)
(* position just after the match the pattern makes when tried at position  *)
(* i of t (Python's greedy, backtracking matcher), or 0 when the pattern   *)
(* does not match there.                                                   *)
(***************************************************************************)

\* \s*\]  at position b
BracketClose(t, b) ==
    LET c == RunEnd(t, b, Ws)
    IN  IF At(t, c) = "]" THEN c + 1 ELSE 0

\* (?:\s*[,\-]\s*\d+)*\s*\]  at position b
RECURSIVE BracketLoop(_, _)
BracketLoop(t, b) ==
    LET c == RunEnd(t, b, Ws)
        d == RunEnd(t, c + 1, Ws)
        e == RunEnd(t, d, Digits)
    IN  IF At(t, c) \in BracketSeps /\ e > d
        THEN LET r == BracketLoop(t, e)
             IN  IF r # 0 THEN r ELSE BracketClose(t, b)
        ELSE BracketClose(t, b)

\* only a single integer in the brackets: \[\s*\d+\s*\]
MatchBracketSingle(t, i) ==
    LET a == RunEnd(t, i + 1, Ws)
        b == RunEnd(t, a, Digits)
    IN  IF At(t, i) = "[" /\ b > a THEN BracketClose(t, b) ELSE 0

\* \[\s*\d+(?:\s*[,\-]\s*\d+)*\s*\]
MatchBracket(t, i) ==
    LET a == RunEnd(t, i + 1, Ws)
        b == RunEnd(t, a, Digits)
    IN  IF At(t, i) = "[" /\ b > a THEN BracketLoop(t, b) ELSE 0

\* \s*\(\s*[U+2013\-,;]*\s*\)\s*
MatchEmptyParens(t, i) ==
    LET a == RunEnd(t, i, Ws)
        b == RunEnd(t, a + 1, Ws)
        c == RunEnd(t, b, ParenJunk)
        d == RunEnd(t, c, Ws)
    IN  IF At(t, a) = "(" /\ At(t, d) = ")" THEN RunEnd(t, d + 1, Ws) ELSE 0

\* \s+(?=[.,;:\s]|$) at position b: the greedy run, given back by one character
\* when only a whitespace character can satisfy the lookahead
WsThenLookahead(t, b) ==
    LET e == RunEnd(t, b, Ws)
    IN  IF e = b THEN 0
        ELSE IF e > Len(t) \/ At(t, e) \in Punct THEN e
        ELSE IF e - 1 > b THEN e - 1
        ELSE 0

\* \s+[U+2013\-]\s+(?=[.,;:\s]|$)
MatchDash(t, i) ==
    LET a == RunEnd(t, i, Ws)
    IN  IF a > i /\ At(t, a) \in Dashes THEN WsThenLookahead(t, a + 1) ELSE 0

\* (?<=\s)[,;]\s+(?=[.,;:\s]|$)
MatchCommaSemi(t, i) ==
    IF At(t, i) \in CommaSemi /\ At(t, i - 1) \in Ws
    THEN WsThenLookahead(t, i + 1) ELSE 0

\* ([.,;:])\s*[,;]\s*
MatchPunct(t, i) ==
    LET a == RunEnd(t, i + 1, Ws)
    IN  IF At(t, i) \in Punct /\ At(t, a) \in CommaSemi
        THEN RunEnd(t, a + 1, Ws) ELSE 0

\* \.{2,}
MatchPeriods(t, i) ==
    LET e == RunEnd(t, i, {"."})
    IN  IF e >= i + 2 THEN e ELSE 0

\* \.\s+\.
MatchPeriodSpace(t, i) ==
    LET a == RunEnd(t, i + 1, Ws)
    IN  IF At(t, i) = "." /\ a > i + 1 /\ At(t, a) = "." THEN a + 1 ELSE 0

\* "  +" (two or more spaces)
MatchSpaces(t, i) ==
    LET e == RunEnd(t, i, {" "})
    IN  IF e >= i + 2 THEN e ELSE 0

\* last position in b..e-1 holding a newline, 0 if none
RECURSIVE LastNewline(_, _, _)
LastNewline(t, b, e) ==
    IF e <= b THEN 0
    ELSE IF t[e - 1] = "\n" THEN e - 1 ELSE LastNewline(t, b, e - 1)

\* \n\s*\n : the greedy \s* backtracks to the last newline of the run
MatchBlankLines(t, i) ==
    LET e == RunEnd(t, i + 1, Ws)
        n == LastNewline(t, i + 1, e)
    IN  IF At(t, i) = "\n" /\ n # 0 THEN n + 1 ELSE 0

\* \s+([.,;:)])
MatchSpacePunct(t, i) ==
    LET a == RunEnd(t, i, Ws)
    IN  IF a > i /\ At(t, a) \in PunctClose THEN a + 1 ELSE 0

MatchEnd(k, t, i) ==
    CASE k = "bracket"    -> MatchBracket(t, i)
      [] k = "parens"     -> MatchEmptyParens(t, i)
      [] k = "dash"       -> MatchDash(t, i)
      [] k = "commasemi"  -> MatchCommaSemi(t, i)
      [] k = "punct"      -> MatchPunct(t, i)
      [] k = "periods"    -> MatchPeriods(t, i)
      [] k = "periodsp"   -> MatchPeriodSpace(t, i)
      [] k = "spaces"     -> MatchSpaces(t, i)
      [] k = "blanklines" -> MatchBlankLines(t, i)
      [] k = "spacepunct" -> MatchSpacePunct(t, i)

\* the replacement text of pass k for the match t[i .. e-1]
Replacement(k, t, i, e) ==
    CASE k = "bracket"    -> <<>>
      [] k = "parens"     -> <<" ">>
      [] k = "dash"       -> <<" ">>
      [] k = "commasemi"  -> <<" ">>
      [] k = "punct"      -> <<t[i], " ">>
      [] k = "periods"    -> <<".">>
      [] k = "periodsp"   -> <<".">>
      [] k = "spaces"     -> <<" ">>
      [] k = "blanklines" -> <<"\n", "\n">>
      [] k = "spacepunct" -> <<t[e - 1]>>

\* the first position from i on where pass k matches, 0 when there is none
NextMatch(k, t, i) ==
    LET starts == {j \in i..Len(t) : MatchEnd(k, t, j) > j}
    IN  IF starts = {} THEN 0 ELSE CHOOSE j \in starts : \A m \in starts : j <= m

\* re.sub(pattern_k, replacement_k, t), scanning from position i: leftmost
\* non-overlapping matches, scanning resumes after each match
RECURSIVE SubFrom(_, _, _)
SubFrom(k, t, i) ==
    LET Replaced(j, e) == SubSeq(t, i, j - 1) \o Replacement(k, t, j, e) \o SubFrom(k, t, e)
        From(j) == IF j = 0 THEN SubSeq(t, i, Len(t)) ELSE Replaced(j, MatchEnd(k, t, j))
    IN  From(NextMatch(k, t, i))

ReSub(k, t) == SubFrom(k, t, 1)

\* the passes of strip_citations after the early return, in source order
Passes ==
    <<"bracket", "parens", "dash", "commasemi", "punct", "periods", "periodsp",
      "spaces", "blanklines", "spacepunct">>

\* text = re.sub(...) for each pass of ks in turn; no pass changes the
\* empty text
RECURSIVE ApplyPasses(_, _)
ApplyPasses(ks, t) ==
    IF ks = <<>> \/ t = <<>> THEN t ELSE ApplyPasses(Tail(ks), ReSub(Head(ks), t))

strip_citations(t) ==
    IF t = <<>> \/ Strip(t) = <<>> THEN t ELSE Strip(ApplyPasses(Passes, t))

\* link_to_markdown(href, link_text)
link_to_markdown(h, lt) ==
    LET h1  == Strip(h)
        lt1 == Strip(IF lt # <<>> THEN lt ELSE h1)
    IN  IF h1 = <<>> \/ Head(h1) = "#" THEN lt1
        ELSE <<"[">> \o lt1 \o <<"]", "(">> \o h1 \o <<")">>

\* sub in t, for strings
Contains(t, sub) ==
    \E i \in 1..(Len(t) - Len(sub) + 1) : SubSeq(t, i, i + Len(sub) - 1) = sub

(***************************************************************************)
(* MathML to LaTeX (converter/math_utils.py).  An element of an            *)
(* ElementTree is a record: tag is the local name, ns the namespace the    *)
(* tag is qualified with ("" when it is not), attrs a set of               *)
(* <<name, value>> pairs, text and tail the character data after the start *)
(* tag and after the end tag, kids the child elements in document order.   *)
(***************************************************************************)
El(tag, ns, attrs, txt, tail, kids) ==
    [tag |-> tag, ns |-> ns, attrs |-> attrs, text |-> txt, tail |-> tail, kids |-> kids]

\* el.get(name, default)
GetAttr(el, name, default) ==
    IF \E a \in el.attrs : a[1] = name
    THEN (CHOOSE a \in el.attrs : a[1] = name)[2]
    ELSE default

\* "".join(el.itertext()): the element's text, then for each child its own
\* itertext followed by its tail
RECURSIVE IterText(_)
RECURSIVE IterTextKids(_)
IterText(el) == el.text \o IterTextKids(el.kids)
IterTextKids(kids) ==
    IF kids = <<>> THEN <<>>
    ELSE IterText(Head(kids)) \o Head(kids).tail \o IterTextKids(Tail(kids))

\* concatenation of string pieces; an exception raised while computing a piece
\* escapes the whole expression
RECURSIVE Cat(_)
Cat(parts) ==
    IF parts = <<>> THEN <<>>
    ELSE LET r == Cat(Tail(parts))
         IN  IF Head(parts) = Raised \/ r = Raised THEN Raised ELSE Head(parts) \o r

\* the descendants of el, in document order: el.iter() without el itself
RECURSIVE Descendants(_)
RECURSIVE DescendantsOfAll(_)
Descendants(el) == DescendantsOfAll(el.kids)
DescendantsOfAll(kids) ==
    IF kids = <<>> THEN <<>>
    ELSE <<Head(kids)>> \o Descendants(Head(kids)) \o DescendantsOfAll(Tail(kids))

\* the members of a sequence that satisfy a tag test, in order
WithTag(els, tag, ns) ==
    LET Tagged(el) == el.tag = tag /\ el.ns = ns
    IN  SelectSeq(els, Tagged)

MoPassThrough == {"+", "-", "=", "<", ">", "*", "/"}
MoText(op) ==
    IF Len(op) = 1 /\ op[1] \in MoPassThrough THEN op
    ELSE IF op = <<"U+2212">> THEN <<"-">>
    ELSE IF op = <<"U+00D7">> THEN <<"\\", "t", "i", "m", "e", "s", " ">>
    ELSE IF op = <<"U+00F7">> THEN <<"\\", "d", "i", "v", " ">>
    ELSE op

RECURSIVE ConvEl(_, _)
RECURSIVE ConvJoin(_, _, _)
RECURSIVE ConvRows(_, _)

\* sep.join(_mathml_to_latex_el(c) for c in kids)
ConvJoin(kids, sep, d) ==
    IF kids = <<>> THEN <<>>
    ELSE IF Len(kids) = 1 THEN ConvEl(kids[1], d)
    ELSE Cat(<<ConvEl(kids[1], d), sep, ConvJoin(Tail(kids), sep, d)>>)

\* " \\ ".join(" & ".join(... for c in row.findall("mtd")) for row in rows)
ConvRows(rows, d) ==
    LET cells(row) == ConvJoin(WithTag(row.kids, "mtd", ""), <<" ", "&", " ">>, d)
    IN  IF rows = <<>> THEN <<>>
        ELSE IF Len(rows) = 1 THEN cells(rows[1])
        ELSE Cat(<<cells(rows[1]), <<" ", "\\", "\\", " ">>, ConvRows(Tail(rows), d)>>)

\* a converter without the script and fraction branches: token elements give
\* their text, every other element the concatenation of its children
ConvElNoScripts(el, d) ==
    IF d > RecursionLimit THEN Raised
    ELSE IF el.tag \in {"mi", "mn", "mo"} THEN Strip(IterText(el))
    ELSE ConvJoin(el.kids, <<>>, d + 1)

\* a converter that drops the elements it has no branch for, children included
ConvElOpaque(el, d) ==
    IF d > RecursionLimit THEN Raised
    ELSE IF el.tag \in {"mi", "mn", "mo"} THEN Strip(IterText(el))
    ELSE IF el.tag \in {"math", "mrow"} THEN ConvJoin(el.kids, <<>>, d + 1)
    ELSE <<>>

\* _mathml_to_latex_el(el), called at nesting depth d: RecursionError once
\* the interpreter's stack is exhausted
ConvEl(el, d) ==
    IF d > RecursionLimit THEN Raised
    ELSE
    LET tag == el.tag
        kids == el.kids
        all == ConvJoin(kids, <<>>, d + 1)
        kid(i, default) == IF Len(kids) >= i THEN ConvEl(kids[i], d + 1) ELSE default
        txt == Strip(IterText(el))
    IN  CASE tag = "math" -> IF all = Raised THEN Raised ELSE Strip(all)
          [] tag = "mrow" -> all
          [] tag = "mi" -> IF Len(txt) = 1 THEN txt ELSE <<"\\">> \o txt \o <<" ">>
          [] tag = "mn" -> txt
          [] tag = "mo" -> MoText(txt)
          [] tag = "msup" ->
               Cat(<<<<"{">>, kid(1, <<>>), <<"}", "^", "{">>, kid(2, <<>>), <<"}">>>>)
          [] tag = "msub" ->
               Cat(<<<<"{">>, kid(1, <<>>), <<"}", "_", "{">>, kid(2, <<>>), <<"}">>>>)
          [] tag = "mfrac" ->
               Cat(<<<<"\\", "f", "r", "a", "c", "{">>, kid(1, <<>>), <<"}", "{">>,
                     kid(2, <<>>), <<"}">>>>)
          [] tag = "msqrt" -> Cat(<<<<"\\", "s", "q", "r", "t", "{">>, all, <<"}">>>>)
          [] tag = "mroot" ->
               LET body == kid(1, <<>>)
                   n == kid(2, <<"2">>)
               IN  Cat(<<<<"\\", "s", "q", "r", "t", "[">>, n, <<"]", "{">>, body, <<"}">>>>)
          [] tag = "mover" ->
               LET base == kid(1, <<>>)
                   acc == kid(2, <<>>)
               IN  IF base = Raised \/ acc = Raised THEN Raised
                   ELSE IF acc \in {<<"-">>, <<"U+00AF">>}
                   THEN <<"\\", "o", "v", "e", "r", "l", "i", "n", "e", "{">> \o base \o <<"}">>
                   ELSE <<"\\", "o", "v", "e", "r", "s", "e", "t", "{">> \o acc
                        \o <<"}", "{">> \o base \o <<"}">>
          [] tag = "munder" ->
               LET base == kid(1, <<>>)
                   und == kid(2, <<>>)
               IN  Cat(<<<<"\\", "u", "n", "d", "e", "r", "s", "e", "t", "{">>, und,
                         <<"}", "{">>, base, <<"}">>>>)
          [] tag = "msubsup" ->
               Cat(<<<<"{">>, kid(1, <<>>), <<"}", "_", "{">>, kid(2, <<>>),
                     <<"}", "^", "{">>, kid(3, <<>>), <<"}">>>>)
          [] tag = "mtable" ->
               LET rows == WithTag(Descendants(el), "mtr", "")
               IN  IF rows = <<>> THEN <<"[", "t", "a", "b", "l", "e", "]">>
                   ELSE Cat(<<<<"\\", "b", "e", "g", "i", "n", "{", "m", "a", "t", "r", "i", "x", "}">>,
                              ConvRows(rows, d + 1),
                              <<"\\", "e", "n", "d", "{", "m", "a", "t", "r", "i", "x", "}">>>>)
          [] tag \in {"mtr", "mtd"} -> all
          [] tag = "mfenced" ->
               Cat(<<GetAttr(el, "open", <<"(">>), ConvJoin(kids, <<",">>, d + 1),
                     GetAttr(el, "close", <<")">>)>>)
          [] tag = "munderover" ->
               LET base == kid(1, <<>>)
                   und == kid(2, <<>>)
                   ov == kid(3, <<>>)
               IN  Cat(<<<<"\\", "u", "n", "d", "e", "r", "s", "e", "t", "{">>, und,
                         <<"}", "{", "\\", "o", "v", "e", "r", "s", "e", "t", "{">>, ov,
                         <<"}", "{">>, base, <<"}", "}">>>>)
          [] OTHER -> all

\* r.strip(), for a conversion result r that may be a raised exception
StripResult(r) == IF r = Raised THEN Raised ELSE Strip(r)

\* mathml_element_to_latex(el): no exception handler
mathml_element_to_latex(el) == StripResult(ConvEl(el, 1))

(***************************************************************************)
(* ET.fromstring on a MathML string.  The string is a sequence of markup   *)
(* tokens: <<"open", t>> is the start tag <t>, <<"close", t>> the end tag  *)
(* </t>, <<"char", c>> one character of character data and                *)
(* <<"cut", t>> the unterminated start tag "<t".  A tag token with a third  *)
(* component, <<"open", t, ns>>, is a tag whose name is qualified with a    *)
(* prefix bound to the namespace ns.                                       *)
(***************************************************************************)
\* the namespace a tag token qualifies its name with
TokenNs(tok) == IF Len(tok) = 3 THEN tok[3] ELSE ""

\* fromstring gives <<root>>, or ParseError when the string is not well-formed
ParseError == <<>>

\* the element on top of the stack receives character c: as its text while it
\* has no child, as the tail of its last child otherwise
AddChar(el, c) ==
    IF el.kids = <<>> THEN [el EXCEPT !.text = @ \o <<c>>]
    ELSE [el EXCEPT !.kids[Len(el.kids)].tail = @ \o <<c>>]

\* the parser's run over toks[i..]: stack holds the open elements, outermost
\* first, and root the finished document element (<<>> before it is closed)
RECURSIVE ParseFrom(_, _, _, _)
ParseFrom(toks, i, stack, root) ==
    IF i > Len(toks)
    THEN IF stack = <<>> /\ root # <<>> THEN root ELSE ParseError
    ELSE
    LET tok == toks[i]
        n == Len(stack)
    IN  CASE tok[1] = "open" ->
               IF n = 0 /\ root # <<>> THEN ParseError
               ELSE ParseFrom(toks, i + 1,
                              Append(stack, El(tok[2], TokenNs(tok), {}, <<>>, <<>>, <<>>)), root)
          [] tok[1] = "close" ->
               IF n = 0 \/ stack[n].tag # tok[2] \/ stack[n].ns # TokenNs(tok) THEN ParseError
               ELSE IF n = 1 THEN ParseFrom(toks, i + 1, <<>>, <<stack[1]>>)
               ELSE ParseFrom(toks, i + 1,
                              [SubSeq(stack, 1, n - 1) EXCEPT
                                  ![n - 1].kids = Append(@, stack[n])], root)
          [] tok[1] = "char" ->
               IF n = 0
               THEN IF tok[2] \in Ws THEN ParseFrom(toks, i + 1, stack, root)
                    ELSE ParseError
               ELSE ParseFrom(toks, i + 1, [stack EXCEPT ![n] = AddChar(@, tok[2])], root)
          [] OTHER -> ParseError

fromstring(toks) == ParseFrom(toks, 1, <<>>, <<>>)

\* not mathml_str.strip(): no token, or whitespace characters only
IsBlank(toks) == \A i \in 1..Len(toks) : toks[i][1] = "char" /\ toks[i][2] \in Ws

\* the conversion result r behind "except Exception: return ''"
Caught(r) == IF r = Raised THEN <<>> ELSE Strip(r)

\* without the exception handlers: a parse error and a conversion error
\* escape
mathml_to_latex_unguarded(toks) ==
    IF IsBlank(toks) THEN <<>>
    ELSE IF fromstring(toks) = ParseError THEN Raised
    ELSE StripResult(ConvEl(fromstring(toks)[1], 1))

\* mathml_to_latex(mathml_str): every exception is caught and gives ""
mathml_to_latex(toks) ==
    IF IsBlank(toks) THEN <<>>
    ELSE IF fromstring(toks) = ParseError THEN <<>>
    ELSE Caught(ConvEl(fromstring(toks)[1], 1))

(***************************************************************************)
(* MathML to LaTeX (arxiv_prism/math_utils.py): the same converter with a  *)
(* longer operator table, a table rule that looks at the local names of    *)
(* the children, and rules for mtext and mspace.                           *)
(***************************************************************************)
PrismMoPassThrough ==
    {"+", "-", "=", "<", ">", "*", "/", "(", ")", "[", "]", "{", "}", "|", ",", ".", ":", ";"}
PrismMoText(op) ==
    IF Len(op) # 1 THEN op
    ELSE LET c == op[1]
         IN CASE c \in PrismMoPassThrough -> op
          [] c = "U+2212" -> <<"-">>
          [] c = "U+00D7" -> <<"\\", "t", "i", "m", "e", "s", " ">>
          [] c = "U+00F7" -> <<"\\", "d", "i", "v", " ">>
          [] c = "U+2264" -> <<"\\", "l", "e", "q", " ">>
          [] c = "U+2A7D" -> <<"\\", "l", "e", "q", " ">>
          [] c = "U+2265" -> <<"\\", "g", "e", "q", " ">>
          [] c = "U+2A7E" -> <<"\\", "g", "e", "q", " ">>
          [] c = "U+2260" -> <<"\\", "n", "e", "q", " ">>
          [] c = "U+00B1" -> <<"\\", "p", "m", " ">>
          [] c = "U+2213" -> <<"\\", "m", "p", " ">>
          [] c = "U+2208" -> <<"\\", "i", "n", " ">>
          [] c = "U+2209" -> <<"\\", "n", "o", "t", "i", "n", " ">>
          [] c = "U+2282" -> <<"\\", "s", "u", "b", "s", "e", "t", " ">>
          [] c = "U+2283" -> <<"\\", "s", "u", "p", "s", "e", "t", " ">>
          [] c = "U+2286" -> <<"\\", "s", "u", "b", "s", "e", "t", "e", "q", " ">>
          [] c = "U+2287" -> <<"\\", "s", "u", "p", "s", "e", "t", "e", "q", " ">>
          [] c = "U+222A" -> <<"\\", "c", "u", "p", " ">>
          [] c = "U+2229" -> <<"\\", "c", "a", "p", " ">>
          [] c = "U+221E" -> <<"\\", "i", "n", "f", "t", "y", " ">>
          [] c = "U+2211" -> <<"\\", "s", "u", "m", " ">>
          [] c = "U+220F" -> <<"\\", "p", "r", "o", "d", " ">>
          [] c = "U+222B" -> <<"\\", "i", "n", "t", " ">>
          [] OTHER -> op

\* the children of el whose local name is tag, whatever their namespace
RECURSIVE LocalTag(_, _)
LocalTag(els, tag) ==
    IF els = <<>> THEN <<>>
    ELSE (IF Head(els).tag = tag THEN <<Head(els)>> ELSE <<>>) \o LocalTag(Tail(els), tag)

\* the mspace rule: the LaTeX spacing command for a width attribute
PrismSpace(width) ==
    IF Contains(width, <<"t", "h", "i", "n">>)
       \/ width \in {<<"0", ".", "1", "6", "7", "e", "m">>, <<"3", "p", "t">>}
    THEN <<"\\", ",">>
    ELSE IF Contains(width, <<"m", "e", "d", "i", "u", "m">>)
       \/ width \in {<<"0", ".", "2", "2", "2", "e", "m">>, <<"4", "p", "t">>}
    THEN <<"\\", ":">>
    ELSE IF Contains(width, <<"t", "h", "i", "c", "k">>)
       \/ width \in {<<"0", ".", "2", "7", "8", "e", "m">>, <<"5", "p", "t">>}
    THEN <<"\\", ";">>
    ELSE IF Contains(width, <<"1", "e", "m">>) THEN <<"\\", "q", "u", "a", "d", " ">>
    ELSE IF Contains(width, <<"2", "e", "m">>) THEN <<"\\", "q", "q", "u", "a", "d", " ">>
    ELSE <<" ">>

RECURSIVE PrismConvEl(_, _)
RECURSIVE PrismConvJoin(_, _, _)
RECURSIVE PrismConvRows(_, _)

PrismConvJoin(kids, sep, d) ==
    IF kids = <<>> THEN <<>>
    ELSE IF Len(kids) = 1 THEN PrismConvEl(kids[1], d)
    ELSE Cat(<<PrismConvEl(kids[1], d), sep, PrismConvJoin(Tail(kids), sep, d)>>)

\* row_parts: one " & "-joined entry for each row that has cells
PrismConvRows(rows, d) ==
    IF rows = <<>> THEN <<>>
    ELSE LET cells == LocalTag(Head(rows).kids, "mtd")
             rest == PrismConvRows(Tail(rows), d)
             part == PrismConvJoin(cells, <<" ", "&", " ">>, d)
         IN  IF cells = <<>> THEN rest
             ELSE IF part = Raised \/ rest = Raised THEN Raised
             ELSE <<part>> \o rest

\* sep.join(parts)
RECURSIVE JoinWith(_, _)
JoinWith(parts, sep) ==
    IF parts = <<>> THEN <<>>
    ELSE IF Len(parts) = 1 THEN parts[1]
    ELSE parts[1] \o sep \o JoinWith(Tail(parts), sep)

PrismConvEl(el, d) ==
    IF d > RecursionLimit THEN Raised
    ELSE
    LET tag == el.tag
        kids == el.kids
        all == PrismConvJoin(kids, <<>>, d + 1)
        kid(i, default) == IF Len(kids) >= i THEN PrismConvEl(kids[i], d + 1) ELSE default
        txt == Strip(IterText(el))
    IN  CASE tag = "math" -> IF all = Raised THEN Raised ELSE Strip(all)
          [] tag = "mrow" -> all
          [] tag = "mi" -> IF Len(txt) = 1 THEN txt ELSE <<"\\">> \o txt \o <<" ">>
          [] tag = "mn" -> txt
          [] tag = "mo" -> PrismMoText(txt)
          [] tag = "msup" ->
               Cat(<<<<"{">>, kid(1, <<>>), <<"}", "^", "{">>, kid(2, <<>>), <<"}">>>>)
          [] tag = "msub" ->
               Cat(<<<<"{">>, kid(1, <<>>), <<"}", "_", "{">>, kid(2, <<>>), <<"}">>>>)
          [] tag = "mfrac" ->
               Cat(<<<<"\\", "f", "r", "a", "c", "{">>, kid(1, <<>>), <<"}", "{">>,
                     kid(2, <<>>), <<"}">>>>)
          [] tag = "msqrt" -> Cat(<<<<"\\", "s", "q", "r", "t", "{">>, all, <<"}">>>>)
          [] tag = "mroot" ->
               LET body == kid(1, <<>>)
                   n == kid(2, <<"2">>)
               IN  Cat(<<<<"\\", "s", "q", "r", "t", "[">>, n, <<"]", "{">>, body, <<"}">>>>)
          [] tag = "mover" ->
               LET base == kid(1, <<>>)
                   acc == kid(2, <<>>)
               IN  IF base = Raised \/ acc = Raised THEN Raised
                   ELSE IF acc \in {<<"-">>, <<"U+00AF">>}
                   THEN <<"\\", "o", "v", "e", "r", "l", "i", "n", "e", "{">> \o base \o <<"}">>
                   ELSE <<"\\", "o", "v", "e", "r", "s", "e", "t", "{">> \o acc
                        \o <<"}", "{">> \o base \o <<"}">>
          [] tag = "munder" ->
               LET base == kid(1, <<>>)
                   und == kid(2, <<>>)
               IN  Cat(<<<<"\\", "u", "n", "d", "e", "r", "s", "e", "t", "{">>, und,
                         <<"}", "{">>, base, <<"}">>>>)
          [] tag = "msubsup" ->
               Cat(<<<<"{">>, kid(1, <<>>), <<"}", "_", "{">>, kid(2, <<>>),
                     <<"}", "^", "{">>, kid(3, <<>>), <<"}">>>>)
          [] tag = "mtable" ->
               LET rows == LocalTag(kids, "mtr")
                   parts == PrismConvRows(rows, d + 1)
               IN  IF parts = Raised THEN Raised
                   ELSE IF parts = <<>> THEN <<"[", "t", "a", "b", "l", "e", "]">>
                   ELSE <<"\\", "b", "e", "g", "i", "n", "{", "m", "a", "t", "r", "i", "x", "}">>
                        \o JoinWith(parts, <<" ", "\\", "\\", " ">>)
                        \o <<"\\", "e", "n", "d", "{", "m", "a", "t", "r", "i", "x", "}">>
          [] tag \in {"mtr", "mtd"} -> all
          [] tag = "mfenced" ->
               Cat(<<GetAttr(el, "open", <<"(">>), PrismConvJoin(kids, <<",">>, d + 1),
                     GetAttr(el, "close", <<")">>)>>)
          [] tag = "munderover" ->
               LET base == kid(1, <<>>)
                   und == kid(2, <<>>)
                   ov == kid(3, <<>>)
               IN  Cat(<<<<"\\", "u", "n", "d", "e", "r", "s", "e", "t", "{">>, und,
                         <<"}", "{", "\\", "o", "v", "e", "r", "s", "e", "t", "{">>, ov,
                         <<"}", "{">>, base, <<"}", "}">>>>)
          [] tag = "mtext" ->
               IF txt # <<>> THEN <<"\\", "t", "e", "x", "t", "{">> \o txt \o <<"}">> ELSE <<>>
          [] tag = "mspace" -> PrismSpace(GetAttr(el, "width", <<>>))
          [] OTHER -> all

\* arxiv_prism mathml_element_to_latex(el): no exception handler
prism_mathml_element_to_latex(el) == StripResult(PrismConvEl(el, 1))

\* arxiv_prism mathml_to_latex(mathml_str): every exception is caught and
\* gives ""
prism_mathml_to_latex(toks) ==
    IF IsBlank(toks) THEN <<>>
    ELSE IF fromstring(toks) = ParseError THEN <<>>
    ELSE Caught(PrismConvEl(fromstring(toks)[1], 1))

(***************************************************************************)
(* Article data model (converter/models.py).  A Section is a record        *)
(* [title, level, content, children]; constructing one validates           *)
(* 1 <= level <= 3.  An Article accepts only the fields it declares.       *)
(***************************************************************************)
SectionLevelMin == 1
SectionLevelMax == 3

SectionValid(level) == level >= SectionLevelMin /\ level <= SectionLevelMax

\* Section(title=..., level=..., content=..., children=...): <<section>>, or
\* ValidationError
Section(title, level, content, children) ==
    IF SectionValid(level)
    THEN <<[title |-> title, level |-> level, content |-> content, children |-> children]>>
    ELSE Raised

ArticleFields ==
    {"title", "doi", "journal", "publication_date", "abstract", "sections",
     "figures", "tables", "supplementary"}

(***************************************************************************)
(* XML parser (converter/parsers/xml_parser.py).                           *)
(***************************************************************************)
IsTag(el, tag) == el.tag = tag /\ el.ns = ""

\* el.find(tag): <<first child with the tag>>, or <<>> for None
Find(el, tag) ==
    LET hits == WithTag(el.kids, tag, "")
    IN  IF hits = <<>> THEN <<>> ELSE <<hits[1]>>

\* el.find(".//tag") with a namespace: the first descendant in document order
FindDescendant(el, tag, ns) ==
    LET hits == WithTag(Descendants(el), tag, ns)
    IN  IF hits = <<>> THEN <<>> ELSE <<hits[1]>>

\* list(el.itertext()): the non-empty text chunks in document order
RECURSIVE TextChunks(_)
RECURSIVE TextChunksKids(_)
TextChunks(el) ==
    (IF el.text # <<>> THEN <<el.text>> ELSE <<>>) \o TextChunksKids(el.kids)
TextChunksKids(kids) ==
    IF kids = <<>> THEN <<>>
    ELSE TextChunks(Head(kids))
         \o (IF Head(kids).tail # <<>> THEN <<Head(kids).tail>> ELSE <<>>)
         \o TextChunksKids(Tail(kids))

\* sep.join(parts)
RECURSIVE Join(_, _)
Join(parts, sep) ==
    IF parts = <<>> THEN <<>>
    ELSE IF Len(parts) = 1 THEN parts[1]
    ELSE parts[1] \o sep \o Join(Tail(parts), sep)

\* _text(el): " ".join(el.itertext())
XmlText(el) == Join(TextChunks(el), <<" ">>)

\* _norm(s): " ".join(s.split())
\* of a stripped text: each run of whitespace becomes one space
CollapseWs(t) ==
    LET Kept(i) == t[i] \notin Ws \/ t[i - 1] \notin Ws
        at == SelectSeq([i \in 1..Len(t) |-> i], Kept)
    IN  SubSeq([n \in 1..Len(at) |-> IF t[at[n]] \in Ws THEN " " ELSE t[at[n]]], 1, Len(at))

Norm(t) == CollapseWs(Strip(t))

\* the members p of parts with p.strip() non-empty, joined by a blank line
RECURSIVE NonBlank(_)
NonBlank(parts) ==
    IF parts = <<>> THEN <<>>
    ELSE (IF Strip(Head(parts)) # <<>> THEN <<Head(parts)>> ELSE <<>>)
         \o NonBlank(Tail(parts))

JoinParagraphs(parts) == Join(NonBlank(parts), <<"\n", "\n">>)

\* _extract_paragraph_text._process_node(node)
RECURSIVE ProcessNode(_)
RECURSIVE ProcessKids(_)
ProcessNode(node) == node.text \o ProcessKids(node.kids)
ProcessKids(kids) ==
    IF kids = <<>> THEN <<>>
    ELSE LET child == Head(kids)
             h1 == GetAttr(child, "{xlink}href", <<>>)
             h == IF h1 # <<>> THEN h1 ELSE GetAttr(child, "xlink:href", <<>>)
             t == Norm(XmlText(child))
             piece ==
                 IF IsTag(child, "xref") /\ GetAttr(child, "ref-type", <<>>) = <<"b", "i", "b", "r">>
                 THEN <<>>
                 ELSE IF IsTag(child, "ext-link")
                 THEN IF h # <<>> /\ Head(h) # "#"
                      THEN <<"[">> \o (IF t # <<>> THEN t ELSE h) \o <<"]", "(">> \o h \o <<")">>
                      ELSE t
                 ELSE ProcessNode(child)
         IN  piece \o child.tail \o ProcessKids(Tail(kids))

\* _extract_paragraph_text(p_el)
ExtractParagraphText(p) == strip_citations(Norm(ProcessNode(p)))

\* _formula_to_latex(formula_el, display): the LaTeX wrapped in $$ or $, "" when
\* there is no math element or the LaTeX is empty; the converter's exception
\* is not handled here
FormulaToLatex(formula, display) ==
    LET q == FindDescendant(formula, "math", "mml")
        m == IF q # <<>> THEN q ELSE FindDescendant(formula, "math", "")
        Fenced(latex, fence) ==
            IF latex = Raised THEN Raised
            ELSE IF latex = <<>> THEN <<>>
            ELSE fence \o latex \o fence
    IN  IF m = <<>> THEN <<>>
        ELSE Fenced(mathml_element_to_latex(m[1]), IF display THEN <<"$", "$">> ELSE <<"$">>)

\* str.isdigit() and int() on a string of ASCII digits
IsDigitString(t) == t # <<>> /\ \A i \in 1..Len(t) : t[i] \in Digits
DigitValue(c) ==
    CASE c = "0" -> 0 [] c = "1" -> 1 [] c = "2" -> 2 [] c = "3" -> 3 [] c = "4" -> 4
      [] c = "5" -> 5 [] c = "6" -> 6 [] c = "7" -> 7 [] c = "8" -> 8 [] c = "9" -> 9
RECURSIVE ToInt(_)
ToInt(t) ==
    IF t = <<>> THEN 0 ELSE 10 * ToInt(SubSeq(t, 1, Len(t) - 1)) + DigitValue(t[Len(t)])

\* int(disp) if disp and disp.isdigit() else default
DispLevel(sec, default) ==
    LET disp == GetAttr(sec, "disp-level", <<>>)
    IN  IF IsDigitString(disp) THEN ToInt(disp) ELSE default

\* list.append(x) where computing the string x, or an earlier step, may
\* have raised
AppendOrRaise(list, x) ==
    IF list = Raised \/ x = Raised THEN Raised ELSE Append(list, x)

\* list.append(_parse_sec(...)), for the call's result <<Section>> or Raised
AppendSection(list, sub) ==
    IF list = Raised \/ sub = Raised THEN Raised ELSE Append(list, sub[1])

\* _parse_sec(sec_el, level): <<Section>>, or Raised when a nested call, a
\* formula conversion or the Section constructor raises.  SecWalk is the loop
\* over the children and the return statement after it.
RECURSIVE ParseSec(_, _)
RECURSIVE SecWalk(_, _, _, _, _)
SecWalk(kids, title, level, parts, children) ==
    IF kids = <<>>
    THEN IF parts = Raised \/ children = Raised THEN Raised
         ELSE Section(title, level, JoinParagraphs(parts), children)
    ELSE
    LET child == Head(kids)
        rest == Tail(kids)
    IN  CASE IsTag(child, "title") -> SecWalk(rest, title, level, parts, children)
          [] IsTag(child, "sec") ->
               SecWalk(rest, title, level, parts,
                       AppendSection(children, ParseSec(child, DispLevel(child, level + 1))))
          [] IsTag(child, "p") ->
               SecWalk(rest, title, level,
                       AppendOrRaise(parts, ExtractParagraphText(child)), children)
          [] IsTag(child, "disp-formula") \/ IsTag(child, "inline-formula") ->
               SecWalk(rest, title, level,
                       AppendOrRaise(parts, FormulaToLatex(child, IsTag(child, "disp-formula"))),
                       children)
          [] OTHER -> SecWalk(rest, title, level, parts, children)

ParseSec(sec, level) ==
    LET t == Find(sec, "title")
    IN  SecWalk(sec.kids, IF t # <<>> THEN Norm(XmlText(t[1])) ELSE <<>>, level, <<>>, <<>>)

\* XMLParser._get_sections(body), over secs = body.findall("sec"):
\* <<list of Section>>, or Raised
RECURSIVE GetSectionsFrom(_, _)
GetSectionsFrom(secs, sections) ==
    IF secs = <<>> THEN IF sections = Raised THEN Raised ELSE <<sections>>
    ELSE IF DispLevel(Head(secs), 1) # 1 THEN GetSectionsFrom(Tail(secs), sections)
    ELSE GetSectionsFrom(Tail(secs), AppendSection(sections, ParseSec(Head(secs), 1)))

XmlGetSections(body) == GetSectionsFrom(WithTag(body.kids, "sec", ""), <<>>)

\* caption paragraphs: [_extract_paragraph_text(p) for p in caption.findall("p")]
RECURSIVE ParagraphTexts(_)
ParagraphTexts(ps) ==
    IF ps = <<>> THEN <<>>
    ELSE <<ExtractParagraphText(Head(ps))>> \o ParagraphTexts(Tail(ps))

\* the label of a fig or table-wrap
XmlLabel(el) ==
    LET l == Find(el, "label")
    IN  IF l # <<>> THEN Norm(XmlText(l[1])) ELSE <<>>

\* str(n) for n >= 0
DigitChar(d) ==
    CASE d = 0 -> "0" [] d = 1 -> "1" [] d = 2 -> "2" [] d = 3 -> "3" [] d = 4 -> "4"
      [] d = 5 -> "5" [] d = 6 -> "6" [] d = 7 -> "7" [] d = 8 -> "8" [] d = 9 -> "9"
RECURSIVE IntToStr(_)
IntToStr(n) ==
    IF n < 10 THEN <<DigitChar(n)>> ELSE IntToStr(n \div 10) \o <<DigitChar(n % 10)>>

\* an id that does not count: the prefix and 1, whatever was recorded before
IdOfFirst(prefix, n) == <<prefix, "1">>

\* f"F{n}" / f"T{n}"
IdOf(prefix, n) == <<prefix>> \o IntToStr(n)

\* XMLParser._get_figures(article), over figs = list(article.iter("fig"))
RECURSIVE XmlFiguresFrom(_, _)
XmlFiguresFrom(figs, figures) ==
    IF figs = <<>> THEN figures
    ELSE
    LET fig == Head(figs)
        id == GetAttr(fig, "id", <<>>)
        fid == IF id # <<>> THEN id ELSE IdOf("F", Len(figures) + 1)
        cap == Find(fig, "caption")
        ps == IF cap # <<>> THEN ParagraphTexts(WithTag(cap[1].kids, "p", "")) ELSE <<>>
        t == IF cap # <<>> THEN Find(cap[1], "title") ELSE <<>>
        parts == IF t # <<>> /\ XmlText(t[1]) # <<>> THEN <<Norm(XmlText(t[1]))>> \o ps ELSE ps
    IN  XmlFiguresFrom(Tail(figs),
            Append(figures, [id |-> fid, label |-> XmlLabel(fig),
                             caption |-> Join(parts, <<"\n", "\n">>)]))

\* one table row: the td cells, then the th cells
RECURSIVE NormTexts(_)
NormTexts(els) ==
    IF els = <<>> THEN <<>> ELSE <<Norm(XmlText(Head(els)))>> \o NormTexts(Tail(els))

RECURSIVE XmlRows(_)
XmlRows(trs) ==
    IF trs = <<>> THEN <<>>
    ELSE LET tr == Head(trs)
             row == NormTexts(WithTag(tr.kids, "td", "") \o WithTag(tr.kids, "th", ""))
         IN  (IF row # <<>> THEN <<row>> ELSE <<>>) \o XmlRows(Tail(trs))

\* XMLParser._get_tables(article), over wraps = list(article.iter("table-wrap"))
RECURSIVE XmlTablesFrom(_, _)
XmlTablesFrom(wraps, tables) ==
    IF wraps = <<>> THEN tables
    ELSE
    LET wrap == Head(wraps)
        id == GetAttr(wrap, "id", <<>>)
        tid == IF id # <<>> THEN id ELSE IdOf("T", Len(tables) + 1)
        cap == Find(wrap, "caption")
        ps == IF cap # <<>> THEN ParagraphTexts(WithTag(cap[1].kids, "p", "")) ELSE <<>>
        tbl == Find(wrap, "table")
        rows == IF tbl # <<>> THEN XmlRows(WithTag(Descendants(tbl[1]), "tr", "")) ELSE <<>>
    IN  XmlTablesFrom(Tail(wraps),
            Append(tables, [id |-> tid, label |-> XmlLabel(wrap),
                            caption |-> Join(ps, <<"\n", "\n">>), data |-> rows]))

\* XMLParser._get_supplementary(back)
XmlGetSupplementary(back) == <<>>

\* XMLParser._get_abstract(article_meta)
XmlGetAbstract(meta) ==
    LET a == IF meta # <<>> THEN Find(meta[1], "abstract") ELSE <<>>
    IN  IF a = <<>> THEN <<>>
        ELSE JoinParagraphs(ParagraphTexts(WithTag(a[1].kids, "p", "")))

\* _elem(root, path) for a path of tags: each step is the first child with the
\* tag, else the first descendant with it
RECURSIVE Elem(_, _)
Elem(root, path) ==
    IF root = <<>> \/ path = <<>> THEN root
    ELSE LET direct == Find(root[1], Head(path))
             found == IF direct # <<>> THEN direct
                      ELSE FindDescendant(root[1], Head(path), "")
         IN  IF found = <<>> THEN <<>> ELSE Elem(found, Tail(path))

\* the first article-id with pub-id-type "doi" and a non-empty text: <<doi>>,
\* or <<>> for None
FirstDoi(ids) ==
    LET IsDoi(aid) == GetAttr(aid, "pub-id-type", <<>>) = <<"d", "o", "i">> /\ aid.text # <<>>
        Stripped(hits) == IF hits = <<>> THEN <<>> ELSE <<Strip(hits[1].text)>>
    IN  Stripped(SelectSeq(ids, IsDoi))

Untitled == <<"U", "n", "t", "i", "t", "l", "e", "d">>

\* the outcome of a parse call: "returned" with the Article, "rejected" when
\* the Article constructor refuses the arguments it is given (article holds
\* them), "raised" when an exception escapes before the Article is built
Outcome(stage, parser, article) == [stage |-> stage, parser |-> parser, article |-> article]

NoArticle == [title |-> <<>>]

\* Article(**args)
BuildArticle(parser, args) ==
    IF DOMAIN args \subseteq ArticleFields
    THEN Outcome("returned", parser, args)
    ELSE Outcome("rejected", parser, args)

\* the title, "Untitled" when there is none
TitleOr(t) == IF t # <<>> THEN t ELSE Untitled

\* XMLParser.parse(content), the parsed content: <<root>>, or ParseError.
\* ArticleOf: root.find("article"), or root itself; MetaOf: <<article_meta>>,
\* or <<>> for None; XmlDoi: article_meta or article is searched, an element
\* without children being falsy; XmlArticle: the rest of parse once the
\* sections are computed
XmlParse(content) ==
    LET ArticleOf(root) ==
            LET a == Find(root, "article")
            IN  IF a # <<>> THEN a[1] ELSE root
        MetaOf(article) ==
            LET front == Find(article, "front")
            IN  IF front # <<>> THEN Find(front[1], "article-meta") ELSE <<>>
        XmlTitle(meta) ==
            LET e == Elem(meta, <<"title-group", "article-title">>)
            IN  TitleOr(Norm(IF e # <<>> THEN XmlText(e[1]) ELSE <<>>))
        XmlDoi(article, meta) ==
            LET idroot == IF meta # <<>> /\ meta[1].kids # <<>> THEN meta[1] ELSE article
            IN  FirstDoi(WithTag(<<idroot>> \o Descendants(idroot), "article-id", ""))
        XmlArticle(article, meta, sections) ==
            IF sections = Raised THEN Outcome("raised", "xml", NoArticle)
            ELSE BuildArticle("xml",
                   [title |-> XmlTitle(meta),
                    doi |-> XmlDoi(article, meta),
                    abstract |-> XmlGetAbstract(meta),
                    sections |-> sections[1],
                    figures |-> XmlFiguresFrom(WithTag(<<article>> \o Descendants(article),
                                                       "fig", ""), <<>>),
                    tables |-> XmlTablesFrom(WithTag(<<article>> \o Descendants(article),
                                                     "table-wrap", ""), <<>>),
                    supplementary |-> IF Find(article, "back") # <<>>
                                      THEN XmlGetSupplementary(Find(article, "back")[1])
                                      ELSE <<>>])
        XmlParseArticle(article) ==
            LET body == Find(article, "body")
            IN  XmlArticle(article, MetaOf(article),
                           IF body # <<>> THEN XmlGetSections(body[1]) ELSE <<<<>>>>)
    IN  IF content = ParseError THEN Outcome("raised", "xml", NoArticle)
        ELSE XmlParseArticle(ArticleOf(content[1]))

(***************************************************************************)
(* HTML parser (converter/parsers/html_parser.py).  The BeautifulSoup tree *)
(* is held in the same element records: a string before the first child   *)
(* is the element's text, a string after an element its tail.  The class   *)
(* attribute is a sequence of class names, every other attribute a string. *)
(***************************************************************************)
Str_References == <<"R", "e", "f", "e", "r", "e", "n", "c", "e", "s">>
SKIP_SECTION_TITLES == {Str_References, Str_References \o <<" ">>}

Range(f) == {f[i] : i \in DOMAIN f}
HasAttr(el, name) == \E a \in el.attrs : a[1] = name
HasClass(el, c) == c \in Range(GetAttr(el, "class", <<>>))

\* str.lower(), on ASCII letters
Lower(t) ==
    LET upper == <<"A", "B", "C", "D", "E", "F", "G", "H", "I", "J", "K", "L", "M",
                   "N", "O", "P", "Q", "R", "S", "T", "U", "V", "W", "X", "Y", "Z">>
        lower == <<"a", "b", "c", "d", "e", "f", "g", "h", "i", "j", "k", "l", "m",
                   "n", "o", "p", "q", "r", "s", "t", "u", "v", "w", "x", "y", "z">>
        LowerChar(c) ==
            IF \E n \in 1..26 : upper[n] = c
            THEN lower[CHOOSE n \in 1..26 : upper[n] = c] ELSE c
    IN  [i \in DOMAIN t |-> LowerChar(t[i])]

\* the descendants of el in document order, each with the set of tags of its
\* ancestors (anc holds those of el and above)
RECURSIVE WithAncestors(_, _)
RECURSIVE WithAncestorsAll(_, _)
WithAncestors(el, anc) == WithAncestorsAll(el.kids, anc \cup {el.tag})
WithAncestorsAll(kids, anc) ==
    IF kids = <<>> THEN <<>>
    ELSE <<[el |-> Head(kids), anc |-> anc]>> \o WithAncestors(Head(kids), anc)
         \o WithAncestorsAll(Tail(kids), anc)

\* the strings of a list that are non-empty once stripped, stripped
RECURSIVE StrippedChunks(_)
StrippedChunks(chunks) ==
    IF chunks = <<>> THEN <<>>
    ELSE (IF Strip(Head(chunks)) # <<>> THEN <<Strip(Head(chunks))>> ELSE <<>>)
         \o StrippedChunks(Tail(chunks))

\* el.get_text(separator=sep, strip=True)
GetText(el, sep) == Join(StrippedChunks(TextChunks(el)), sep)

\* _element_text(el)
ElementText(el) == Norm(GetText(el, <<" ">>))

\* an a element whose href matches re.compile(r"#ref-|#cite", re.I)
IsCitationLink(el) ==
    LET IsCitationHref(h) ==
            \/ Contains(h, <<"#", "r", "e", "f", "-">>)
            \/ Contains(h, <<"#", "c", "i", "t", "e">>)
    IN  el.tag = "a" /\ HasAttr(el, "href") /\ IsCitationHref(Lower(GetAttr(el, "href", <<>>)))

HasCitationLink(el) == \E d \in Range(Descendants(el)) : IsCitationLink(d)

\* the strings of the container once _clean_content_text has decomposed the
\* citation markers and replaced the remaining links; LinkChunk(h, t) is what
\* a.replace_with(...) leaves for a link with target h and text t
RECURSIVE CleanChunks(_)
RECURSIVE CleanChunksKids(_)
RECURSIVE CleanChild(_)
CleanChunks(el) == <<el.text>> \o CleanChunksKids(el.kids)
CleanChild(k) ==
    LET LinkChunk(h, t) ==
            IF h # <<>> /\ Head(h) = "#" THEN <<t>>
            ELSE <<<<"[">> \o (IF t # <<>> THEN t ELSE h) \o <<"]", "(">> \o h \o <<")">>>>
    IN  IF k.tag = "sup" /\ HasCitationLink(k) THEN <<>>
        ELSE IF IsCitationLink(k) THEN <<>>
        ELSE IF k.tag = "a" /\ HasAttr(k, "href")
        THEN LinkChunk(GetAttr(k, "href", <<>>), GetText(k, <<>>))
        ELSE CleanChunks(k)
CleanChunksKids(kids) ==
    IF kids = <<>> THEN <<>>
    ELSE CleanChild(Head(kids)) \o <<Head(kids).tail>> \o CleanChunksKids(Tail(kids))

\* _clean_content_text(soup, container)
CleanContentText(el) ==
    Strip(strip_citations(ReSub("spaces", Join(StrippedChunks(CleanChunks(el)), <<" ">>))))

\* <<the first member of a list>>, or <<>> for None
First(hits) == IF hits = <<>> THEN <<>> ELSE <<hits[1]>>

\* select_one("tag.c") over a list of [el, anc]: <<first match>> or <<>>; the
\* empty set of tags stands for the selector ".c"
FirstWithClass(found, tags, c) ==
    LET Selected(x) == (tags = {} \/ x.el.tag \in tags) /\ HasClass(x.el, c)
    IN  First(SelectSeq(found, Selected))

\* a heading flushes the open block when it has a title or paragraphs
Flush(blocks, cur) ==
    IF cur.title # <<>> \/ cur.parts # <<>>
    THEN Append(blocks, [level |-> cur.level, title |-> cur.title,
                         content |-> JoinParagraphs(cur.parts)])
    ELSE blocks

\* the level a heading node opens, 0 for a node that is not a heading
HeadingLevel(node) ==
    CASE node.tag = "h2" /\ HasClass(node, "c-article__sub-heading") -> 2
      [] node.tag = "h3" -> 2
      [] node.tag = "h4" -> 3
      [] OTHER -> 0

\* a walk whose headings leave the accumulated paragraphs in the cursor
WalkStepKeepParts(node, inFigure, st) ==
    IF HeadingLevel(node) > 0
    THEN [blocks |-> Flush(st.blocks, st.cur),
          cur |-> [level |-> HeadingLevel(node), title |-> ElementText(node),
                   parts |-> st.cur.parts]]
    ELSE IF node.tag \in {"p", "div"} /\ ~inFigure /\ CleanContentText(node) # <<>>
    THEN [st EXCEPT !.cur.parts = Append(@, CleanContentText(node))]
    ELSE st

\* one iteration of the loop over content_div.children: a heading closes the
\* open block and opens the next one, a paragraph adds its text, when it has
\* any, to the open block; inFigure: find_parent("figure") or
\* find_parent("table") of a child, i.e. of the content block and above
WalkStep(node, inFigure, st) ==
    LET OnHeading(level, title) ==
            [blocks |-> Flush(st.blocks, st.cur),
             cur |-> [level |-> level, title |-> title, parts |-> <<>>]]
        OnParagraph(txt) ==
            IF txt = <<>> THEN st ELSE [st EXCEPT !.cur.parts = Append(@, txt)]
    IN  IF HeadingLevel(node) > 0 THEN OnHeading(HeadingLevel(node), ElementText(node))
        ELSE IF node.tag \in {"p", "div"} /\ ~inFigure THEN OnParagraph(CleanContentText(node))
        ELSE st

\* the walk over content_div.children, and the flush after it
RECURSIVE WalkContent(_, _, _)
WalkContent(nodes, inFigure, st) ==
    IF nodes = <<>> THEN Flush(st.blocks, st.cur)
    ELSE WalkContent(Tail(nodes), inFigure, WalkStep(Head(nodes), inFigure, st))

\* a reassembly that gives a level-2 block the first level-3 block only
SubChildrenFirst(blocks, j) ==
    IF j <= Len(blocks) /\ blocks[j].level = 3
    THEN Section(blocks[j].title, 3, blocks[j].content, <<>>)
    ELSE <<>>

\* the level-3 blocks that immediately follow position j - 1, as Sections
RECURSIVE SubChildren(_, _)
SubChildren(blocks, j) ==
    IF j <= Len(blocks) /\ blocks[j].level = 3
    THEN Section(blocks[j].title, 3, blocks[j].content, <<>>) \o SubChildren(blocks, j + 1)
    ELSE <<>>

\* the tree-building loop, from index i
RECURSIVE BuildChildren(_, _)
BuildChildren(blocks, i) ==
    LET ChildWith(subs) ==
            Section(blocks[i].title, 2, blocks[i].content, subs)
            \o BuildChildren(blocks, i + 1 + Len(subs))
    IN  IF i > Len(blocks) THEN <<>>
        ELSE IF blocks[i].level = 2 THEN ChildWith(SubChildren(blocks, i + 1))
        ELSE BuildChildren(blocks, i + 1)

\* the Section one section element gives: its title is the h2 found in the
\* section, else the stripped data-title; cd is its content block, <<>>
\* when it has none
HtmlSection(sec) ==
    LET SectionTitle(h2) ==
            IF h2 # <<>> THEN ElementText(h2[1].el)
            ELSE Strip(GetAttr(sec.el, "data-title", <<>>))
        InFigure(cd) == (cd.anc \cup {cd.el.tag}) \cap {"figure", "table"} # {}
        SectionOf(title, blocks) ==
            IF blocks = <<>> THEN Section(title, 1, <<>>, <<>>)
            ELSE Section(title, 1, blocks[1].content, BuildChildren(blocks, 2))
        SectionIn(title, cd) ==
            IF cd = <<>> THEN Section(title, 1, <<>>, <<>>)
            ELSE SectionOf(title,
                     WalkContent(cd[1].el.kids, InFigure(cd[1]),
                                 [blocks |-> <<>>,
                                  cur |-> [level |-> 1, title |-> title, parts |-> <<>>]]))
        Within(inside) ==
            SectionIn(SectionTitle(FirstWithClass(inside, {"h2"}, "c-article-section__title")),
                      FirstWithClass(inside, {}, "c-article-section__content"))
    IN  Within(WithAncestors(sec.el, sec.anc))

\* the Sections of the section elements that are not skipped
RECURSIVE HtmlSectionsFrom(_)
HtmlSectionsFrom(found) ==
    IF found = <<>> THEN <<>>
    ELSE HtmlSection(Head(found)) \o HtmlSectionsFrom(Tail(found))

\* HTMLParser._get_sections(soup): the section elements with a data-title,
\* but for those whose stripped data-title is in SKIP_SECTION_TITLES
HtmlGetSections(soup) ==
    LET Kept(sec) ==
            /\ sec.el.tag = "section" /\ HasAttr(sec.el, "data-title")
            /\ Strip(GetAttr(sec.el, "data-title", <<>>)) \notin SKIP_SECTION_TITLES
    IN  HtmlSectionsFrom(SelectSeq(WithAncestors(soup, {}), Kept))

\* the first section element whose data-title is exactly title: <<member>> or <<>>
FirstSectionTitled(found, title) ==
    LET Titled(x) ==
            /\ x.el.tag = "section" /\ HasAttr(x.el, "data-title")
            /\ GetAttr(x.el, "data-title", <<>>) = title
    IN  First(SelectSeq(found, Titled))

Str_supp == <<"s", "u", "p", "p">>
Str_supplementary == Str_supp \o <<"l", "e", "m", "e", "n", "t", "a", "r", "y">>
Str_SupplementaryInformation ==
    <<"S", "u", "p", "p", "l", "e", "m", "e", "n", "t", "a", "r", "y", " ",
      "i", "n", "f", "o", "r", "m", "a", "t", "i", "o", "n">>
SuppLabelMax == 80

\* the Supplementary entries of the links of the content block
RECURSIVE SuppFrom(_)
SuppFrom(found) ==
    LET SuppEntry(a, t, h) ==
            IF a.tag = "a" /\ HasAttr(a, "href") /\ t # <<>>
               /\ (Contains(Lower(h), Str_supplementary) \/ Contains(Lower(t), Str_supp))
            THEN <<[label |-> SubSeq(t, 1, IF Len(t) < SuppLabelMax THEN Len(t)
                                           ELSE SuppLabelMax),
                    description |-> h]>>
            ELSE <<>>
    IN  IF found = <<>> THEN <<>>
        ELSE SuppEntry(Head(found).el, ElementText(Head(found).el),
                       GetAttr(Head(found).el, "href", <<>>))
             \o SuppFrom(Tail(found))

\* section.select_one(".c-article-section__content"): <<member>> or <<>>
ContentOf(sec) ==
    IF sec = <<>> THEN <<>>
    ELSE FirstWithClass(WithAncestors(sec[1].el, sec[1].anc), {}, "c-article-section__content")

\* the content block of the first section whose data-title is title
SectionContent(soup, title) == ContentOf(FirstSectionTitled(WithAncestors(soup, {}), title))

\* HTMLParser._get_supplementary(soup)
HtmlGetSupplementary(soup) ==
    LET SuppOf(cd) == IF cd = <<>> THEN <<>> ELSE SuppFrom(WithAncestors(cd[1].el, cd[1].anc))
    IN  SuppOf(SectionContent(soup, Str_SupplementaryInformation))

\* the members of a list of elements with one of the tags, in order
Named(els, tags) ==
    LET IsNamed(el) == el.tag \in tags
    IN  SelectSeq(els, IsNamed)

\* soup.find("meta", attrs={"name": name}) and its stripped content: <<content>>,
\* or <<>> for None
MetaContent(els, name) ==
    LET IsMeta(el) == el.tag = "meta" /\ GetAttr(el, "name", <<>>) = name
        Stripped(hits) ==
            IF hits # <<>> /\ GetAttr(hits[1], "content", <<>>) # <<>>
            THEN <<Strip(GetAttr(hits[1], "content", <<>>))>> ELSE <<>>
    IN  Stripped(SelectSeq(els, IsMeta))

\* the stripped content attributes of every meta element named name
MetaContents(els, name) ==
    LET IsMeta(el) == el.tag = "meta" /\ GetAttr(el, "name", <<>>) = name
        Contents(hits) ==
            SubSeq([i \in 1..Len(hits) |-> Strip(GetAttr(hits[i], "content", <<>>))],
                   1, Len(hits))
    IN  Contents(SelectSeq(els, IsMeta))

\* t.split(",")
RECURSIVE SplitComma(_, _)
SplitComma(t, cur) ==
    IF t = <<>> THEN <<cur>>
    ELSE IF Head(t) = "," THEN <<cur>> \o SplitComma(Tail(t), <<>>)
    ELSE SplitComma(Tail(t), Append(cur, Head(t)))

\* HTMLParser._get_keywords(soup)
HtmlGetKeywords(els) ==
    LET m == MetaContent(els, "citation_keywords")
    IN  IF m = <<>> THEN <<>> ELSE StrippedChunks(SplitComma(m[1], <<>>))

\* the affiliations of the institution metas: distinct non-empty contents,
\* numbered in order of first appearance
RECURSIVE AffiliationsFrom(_, _)
AffiliationsFrom(insts, affs) ==
    IF insts = <<>> THEN affs
    ELSE IF Head(insts) # <<>> /\ ~\E i \in 1..Len(affs) : affs[i].text = Head(insts)
    THEN AffiliationsFrom(Tail(insts), Append(affs, [id |-> Len(affs) + 1, text |-> Head(insts)]))
    ELSE AffiliationsFrom(Tail(insts), affs)

\* the authors of the author metas, each with the affiliation of the
\* institution meta at the same position
RECURSIVE AuthorsFrom(_, _, _, _)
AuthorsFrom(names, i, insts, affs) ==
    IF i > Len(names) THEN <<>>
    ELSE
    LET inst == IF i <= Len(insts) THEN insts[i] ELSE <<>>
        idx == {k \in 1..Len(affs) : affs[k].text = inst /\ inst # <<>>}
    IN  (IF names[i] # <<>>
         THEN <<[name |-> names[i],
                 affiliations |-> IF idx = {} THEN <<>> ELSE <<CHOOSE k \in idx : TRUE>>]>>
         ELSE <<>>)
        \o AuthorsFrom(names, i + 1, insts, affs)

\* HTMLParser._get_authors_affiliations(soup); the author-list and Aff<n>
\* fallback scans find nothing in documents without that markup
HtmlGetAuthorsAffiliations(els) ==
    LET People(names, insts, affs) ==
            [authors |-> AuthorsFrom(names, 1, insts, affs), affiliations |-> affs]
        PeopleOf(insts) ==
            People(MetaContents(els, "citation_author"), insts, AffiliationsFrom(insts, <<>>))
    IN  PeopleOf(MetaContents(els, "citation_author_institution"))

\* class names matched by re.compile("caption") and by
\* re.compile("label|figure-number")
CaptionClasses == {"c-article-figure-caption", "caption"}
LabelClasses == {"c-article-figure-label", "figure-number", "label"}

\* fig.find(...): the first descendant with one of the tags or classes
FirstMatching(els, tags, classes) ==
    LET Matching(el) == el.tag \in tags \/ Range(GetAttr(el, "class", <<>>)) \cap classes # {}
    IN  First(SelectSeq(els, Matching))

\* HTMLParser._get_figures(soup), over figs = soup.find_all("figure"):
\* the caption is that of fig.find("figcaption") or
\* fig.find(class_=re.compile("caption")), the id is fig.get("id") or
\* fig.get("data-id") or the synthesized one
RECURSIVE HtmlFiguresFrom(_, _)
HtmlFiguresFrom(figs, figures) ==
    LET TextOf(found) == IF found # <<>> THEN ElementText(found[1]) ELSE <<>>
        CaptionOr(c1, inside) ==
            IF c1 # <<>> THEN c1 ELSE FirstMatching(inside, {}, CaptionClasses)
        FigureId(fig) ==
            IF GetAttr(fig, "id", <<>>) # <<>> THEN GetAttr(fig, "id", <<>>)
            ELSE GetAttr(fig, "data-id", <<>>)
        FigureWith(id, label, caption) ==
            IF label # <<>> \/ caption # <<>>
            THEN Append(figures, [id |-> IF id # <<>> THEN id ELSE IdOf("F", Len(figures) + 1),
                                  label |-> label, caption |-> caption])
            ELSE figures
        FigureIn(fig, inside) ==
            FigureWith(FigureId(fig),
                       TextOf(FirstMatching(inside, {}, LabelClasses)),
                       TextOf(CaptionOr(FirstMatching(inside, {"figcaption"}, {}), inside)))
    IN  IF figs = <<>> THEN figures
        ELSE HtmlFiguresFrom(Tail(figs), FigureIn(Head(figs), Descendants(Head(figs))))

\* [[_element_text(c) for c in tr.find_all(["th", "td"])] for tr in trs]
RECURSIVE ElementTexts(_)
ElementTexts(els) ==
    IF els = <<>> THEN <<>> ELSE <<ElementText(Head(els))>> \o ElementTexts(Tail(els))

RECURSIVE HtmlRows(_)
HtmlRows(trs) ==
    IF trs = <<>> THEN <<>>
    ELSE <<ElementTexts(Named(Descendants(Head(trs)), {"th", "td"}))>> \o HtmlRows(Tail(trs))

\* the rows of all the elements of a list
RECURSIVE RowsOfAll(_)
RowsOfAll(els) ==
    IF els = <<>> THEN <<>>
    ELSE HtmlRows(Named(Descendants(Head(els)), {"tr"})) \o RowsOfAll(Tail(els))

\* HTMLParser._get_tables(soup), over tbls = soup.find_all("table"): the
\* rows of the first thead and of the tbody children, or without any of
\* those the rows of every tr of the table
RECURSIVE HtmlTablesFrom(_, _)
HtmlTablesFrom(tbls, tables) ==
    LET HeadRows(thead) == IF thead # <<>> THEN RowsOfAll(<<thead[1]>>) ELSE <<>>
        RowsOr(structured, inside) ==
            IF structured = <<>> THEN HtmlRows(Named(inside, {"tr"})) ELSE structured
        TableWith(rows) ==
            IF rows # <<>>
            THEN Append(tables, [id |-> IdOf("T", Len(tables) + 1), label |-> <<>>,
                                 caption |-> <<>>, data |-> rows])
            ELSE tables
        TableIn(tbl, inside) ==
            TableWith(RowsOr(HeadRows(Named(inside, {"thead"}))
                             \o RowsOfAll(Named(tbl.kids, {"tbody"})),
                             inside))
    IN  IF tbls = <<>> THEN tables
        ELSE HtmlTablesFrom(Tail(tbls), TableIn(Head(tbls), Descendants(Head(tbls))))

Str_Abstract == <<"A", "b", "s", "t", "r", "a", "c", "t">>

\* HTMLParser._get_abstract(soup)
HtmlGetAbstract(soup) ==
    LET AbstractOf(cd) == IF cd = <<>> THEN <<>> ELSE CleanContentText(cd[1].el)
    IN  AbstractOf(SectionContent(soup, Str_Abstract))

\* HTMLParser.parse(content), content parsed leniently to soup; the title is
\* that of soup.select_one("h1.c-article-title")
HtmlParse(soup) ==
    LET HtmlGetTitle(h1) == IF h1 # <<>> THEN ElementText(h1[1].el) ELSE <<>>
        HtmlArticle(all, people) ==
            BuildArticle("html",
              [title |-> TitleOr(HtmlGetTitle(FirstWithClass(WithAncestors(soup, {}), {"h1"},
                                                             "c-article-title"))),
               doi |-> MetaContent(all, "DOI"),
               journal |-> MetaContent(all, "citation_journal_title"),
               publication_date |-> MetaContent(all, "citation_publication_date"),
               keywords |-> HtmlGetKeywords(all),
               authors |-> people.authors,
               affiliations |-> people.affiliations,
               abstract |-> HtmlGetAbstract(soup),
               sections |-> HtmlGetSections(soup),
               figures |-> HtmlFiguresFrom(Named(all, {"figure"}), <<>>),
               tables |-> HtmlTablesFrom(Named(all, {"table"}), <<>>),
               supplementary |-> HtmlGetSupplementary(soup)])
        ParseAll(all) == HtmlArticle(all, HtmlGetAuthorsAffiliations(all))
    IN  ParseAll(Descendants(soup))

(***************************************************************************)
(* Input documents.                                                        *)
(***************************************************************************)
\* an element without namespace and tail
X(tag, attrs, txt, kids) == El(tag, "", attrs, txt, <<>>, kids)

\* MathML strings: every short token sequence, and the serialisations of the
\* trees of MathTrees, whole and with the last end tag missing
MathTokens ==
    {<<"open", "mi">>, <<"close", "mi">>, <<"open", "mrow">>, <<"close", "mrow">>,
     <<"char", "x">>, <<"char", " ">>, <<"cut", "mi">>}

RECURSIVE MathTrees(_)
MathTrees(depth) ==
    LET leaves == {X("mi", {}, <<"x">>, <<>>), X("mn", {}, <<"2">>, <<>>)}
    IN  IF depth <= 1 THEN leaves
        ELSE LET sub == MathTrees(depth - 1)
             IN  leaves \cup {X("mrow", {}, <<>>, <<a>>) : a \in sub}
                        \cup {X("msup", {}, <<>>, <<a, b>>) : a \in sub, b \in leaves}

RECURSIVE Chars(_)
Chars(t) == IF t = <<>> THEN <<>> ELSE <<<<"char", Head(t)>>>> \o Chars(Tail(t))

RECURSIVE Serialize(_)
RECURSIVE SerializeAll(_)
Serialize(el) ==
    LET Tag(kind) == IF el.ns = "" THEN <<kind, el.tag>> ELSE <<kind, el.tag, el.ns>>
    IN  <<Tag("open")>> \o Chars(el.text) \o SerializeAll(el.kids)
        \o <<Tag("close")>> \o Chars(el.tail)
SerializeAll(kids) ==
    IF kids = <<>> THEN <<>> ELSE Serialize(Head(kids)) \o SerializeAll(Tail(kids))

\* script and fraction elements with no child, too few, the needed number
\* and too many
ScriptTags == {"msup", "msub", "msubsup", "mfrac"}
ScriptLeaves ==
    {X("mi", {}, <<"x">>, <<>>), X("mn", {}, <<"1">>, <<>>), X("mn", {}, <<"2">>, <<>>)}
ScriptTrees == {X(t, {}, <<>>, ks) : t \in ScriptTags, ks \in SeqsUpTo(ScriptLeaves, MaxScriptKids)}

\* elements of a kind neither package has a branch for (mstyle) or only
\* arxiv_prism has one for (mtext), with and without text of their own, around
\* token elements, a script element and another such element
WrapperTrees ==
    LET x == X("mi", {}, <<"x">>, <<>>)
        two == X("mn", {}, <<"2">>, <<>>)
        inner == SeqsUpTo(ScriptLeaves, MaxKids)
                 \cup {<<X("msup", {}, <<>>, <<x, two>>)>>, <<X("mstyle", {}, <<>>, <<x>>)>>}
    IN  {X(t, {}, txt, ks) : t \in {"mstyle", "mtext"}, txt \in {<<>>, <<"t">>}, ks \in inner}

\* el with every tag qualified by the namespace ns
RECURSIVE Qualified(_, _)
Qualified(el, ns) ==
    [el EXCEPT !.ns = ns,
               !.kids = SubSeq([i \in 1..Len(el.kids) |-> Qualified(el.kids[i], ns)],
                               1, Len(el.kids))]

\* mtable elements: up to MaxKids rows of up to MaxKids cells, a cell empty or
\* holding one token element, and tables whose children are no rows
TableTrees ==
    LET cells == {X("mtd", {}, <<>>, ks) : ks \in SeqsUpTo({X("mi", {}, <<"x">>, <<>>)}, 1)}
        rows == {X("mtr", {}, <<>>, cs) : cs \in SeqsUpTo(cells, MaxKids)}
    IN  {X("mtable", {}, <<>>, rs) : rs \in SeqsUpTo(rows, MaxKids)}
        \cup {X("mtable", {}, <<>>, <<c>>) : c \in cells}

\* the MathML namespace
MML_NS == "http://www.w3.org/1998/Math/MathML"

\* trees given to the converter with plain and with qualified tag names
NamespaceTrees == TableTrees \cup MathTrees(2) \cup {t \in ScriptTrees : Len(t.kids) <= 2}

MathInputs ==
    SeqsUpTo(MathTokens, MaxMathTokens)
    \cup {Serialize(e) : e \in TableTrees}
    \cup {Serialize(Qualified(e, MML_NS)) : e \in NamespaceTrees}
    \cup {Serialize(e) : e \in WrapperTrees}
    \cup {Serialize(e) : e \in MathTrees(MaxMathDepth)}
    \cup {Serialize(e) : e \in ScriptTrees}
    \cup {SubSeq(Serialize(e), 1, Len(Serialize(e)) - 1) : e \in MathTrees(MaxMathDepth)}

\* JATS documents
DispLevels == {<<>>, <<"0">>, <<"1">>, <<"2">>, <<"3">>, <<"4">>}
DispAttr(d) == IF d = <<>> THEN {} ELSE {<<"disp-level", d>>}

Para(t) == X("p", {}, t, <<>>)
Title(t) == X("title", {}, t, <<>>)

\* sec elements nested one inside the other, at most depth deep, each with a
\* title and one paragraph
RECURSIVE SecChains(_)
SecChains(depth) ==
    LET flat == {X("sec", DispAttr(d), <<>>, <<Title(<<"T">>), Para(<<"a">>)>>) : d \in DispLevels}
    IN  IF depth <= 1 THEN flat
        ELSE flat \cup {X("sec", DispAttr(d), <<>>, <<Title(<<"T">>), Para(<<"a">>), inner>>) :
                           d \in DispLevels, inner \in SecChains(depth - 1)}

\* n nested mrow elements around an identifier
RECURSIVE NestedRows(_)
NestedRows(n) ==
    IF n = 0 THEN X("mi", {}, <<"x">>, <<>>) ELSE X("mrow", {}, <<>>, <<NestedRows(n - 1)>>)

MathEl(kids) == El("math", "mml", {}, <<>>, <<>>, kids)
ShallowMath == MathEl(<<X("mi", {}, <<"x">>, <<>>)>>)
\* nested deeper than the converter's recursion can go
DeepMath == MathEl(<<NestedRows(RecursionLimit)>>)

Xref(t, tail) == El("xref", "", {<<"ref-type", <<"b", "i", "b", "r">>>>}, t, tail, <<>>)

SecKids ==
    {Title(<<"T">>),
     Para(<<"a">>),
     Para(<<"a", " ", "[", "1", "]", ".">>),
     X("p", {}, <<"a", " ">>, <<Xref(<<"1">>, <<".">>)>>),
     X("p", {}, <<"a", " ">>, <<El("italic", "", {}, <<"b">>, <<".">>, <<Xref(<<"1">>, <<"c">>)>>)>>),
     X("p", {}, <<"a", " ">>,
       <<El("ext-link", "", {<<"xlink:href", <<"u">>>>}, <<"s">>, <<".">>, <<Xref(<<"1">>, <<>>)>>)>>),
     X("p", {}, <<"a", " ">>, <<X("inline-formula", {}, <<>>, <<ShallowMath>>)>>),
     X("disp-formula", {}, <<>>, <<ShallowMath>>),
     X("disp-formula", {}, <<>>, <<DeepMath>>),
     X("inline-formula", {}, <<>>, <<ShallowMath>>),
     X("inline-formula", {}, <<>>, <<>>),
     X("fig", {}, <<>>, <<X("label", {}, <<"F">>, <<>>)>>),
     X("table-wrap", {}, <<>>, <<>>),
     X("p", {}, <<"a">>, <<X("fig", {}, <<>>, <<X("label", {}, <<"q">>, <<>>)>>)>>)}

\* one sec with a short list of children
SecContents == {X("sec", {}, <<>>, kids) : kids \in SeqsUpTo(SecKids, MaxKids)}

Str_doi == <<"d", "o", "i">>
Fronts ==
    {<<>>,
     <<X("front", {}, <<>>,
         <<X("article-meta", {}, <<>>,
             <<X("article-id", {<<"pub-id-type", Str_doi>>}, <<"1", "0", ".", "1">>, <<>>),
               X("title-group", {}, <<>>, <<X("article-title", {}, <<"T">>, <<>>)>>)>>)>>)>>}
Backs ==
    {<<>>,
     <<X("back", {}, <<>>,
         <<X("sec", {}, <<>>,
             <<X("supplementary-material", {}, <<>>,
                 <<El("ext-link", "", {<<"xlink:href", <<"u">>>>}, <<"S">>, <<>>, <<>>)>>)>>)>>)>>}

Str_g == <<"g">>
\* fig elements: empty, with a label, with a caption, with an id
XmlFigs ==
    {X("fig", {}, <<>>, <<>>),
     X("fig", {}, <<>>, <<X("label", {}, <<"F">>, <<>>)>>),
     X("fig", {}, <<>>, <<X("caption", {}, <<>>, <<Para(<<"c">>)>>)>>),
     X("fig", {<<"id", Str_g>>}, <<>>, <<X("label", {}, <<"F">>, <<>>)>>),
     X("fig", {<<"id", Str_g>>}, <<>>, <<>>)}

\* table-wrap elements: empty, with an id, with a row of a header cell
\* between two data cells, with two rows
Cell(tag, t) == X(tag, {}, t, <<>>)
XmlTableWraps ==
    {X("table-wrap", {}, <<>>, <<>>),
     X("table-wrap", {<<"id", Str_g>>}, <<>>, <<>>),
     X("table-wrap", {}, <<>>,
       <<X("table", {}, <<>>,
           <<X("tr", {}, <<>>, <<Cell("td", <<"a">>), Cell("th", <<"h">>), Cell("td", <<"b">>)>>)>>)>>),
     X("table-wrap", {}, <<>>,
       <<X("table", {}, <<>>,
           <<X("tr", {}, <<>>, <<Cell("th", <<"h">>), Cell("th", <<"k">>)>>),
             X("tr", {}, <<>>, <<Cell("td", <<"a">>), Cell("td", <<"b">>)>>)>>)>>)}

\* an article that holds figures and tables only; without any it is the
\* document that lacks every field
XmlFloatDocs ==
    {<<X("article", {}, <<>>, floats)>> : floats \in SeqsUpTo(XmlFigs \cup XmlTableWraps, MaxFloats)}

\* an article whose figures and tables carry ids of the synthesized form or none
Str_F2 == <<"F", "2">>
Str_T2 == <<"T", "2">>
XmlIdDocs ==
    {<<X("article", {}, <<>>, floats)>> :
        floats \in SeqsUpTo({X("fig", {<<"id", Str_F2>>}, <<>>, <<X("label", {}, <<"F">>, <<>>)>>),
                             X("fig", {}, <<>>, <<X("label", {}, <<"G">>, <<>>)>>),
                             X("table-wrap", {<<"id", Str_T2>>}, <<>>, <<>>),
                             X("table-wrap", {}, <<>>, <<>>)}, MaxFloats)}

\* an article with front matter, one body section and back matter
XmlSecDocs ==
    {<<X("article", {}, <<>>, front \o <<X("body", {}, <<>>, <<sec>>)>> \o back)>> :
        front \in Fronts, back \in Backs, sec \in SecChains(MaxSecDepth) \cup SecContents}

\* journal pages
Str_Results == <<"R", "e", "s", "u", "l", "t", "s">>
Str_Acknowledgements == <<"A", "c", "k", "n", "o", "w", "l", "e", "d", "g", "e", "m", "e", "n", "t", "s">>
Str_Acknowledgments == <<"A", "c", "k", "n", "o", "w", "l", "e", "d", "g", "m", "e", "n", "t", "s">>
Str_SuppLink == <<"S", "u", "p", "p", " ", "1">>
Str_SuppHref == <<"/", "s", "u", "p", "p", "l", "e", "m", "e", "n", "t", "a", "r", "y">>

H(tag, cls, attrs, txt, kids) ==
    El(tag, "", attrs \cup (IF cls = <<>> THEN {} ELSE {<<"class", cls>>}), txt, <<>>, kids)

Content(kids) == H("div", <<"c-article-section__content">>, {}, <<>>, kids)
HtmlSec(title, kids) == H("section", <<>>, {<<"data-title", title>>}, <<>>, kids)

HtmlSectionChoices ==
    {HtmlSec(Str_Results, <<Content(<<H("p", <<>>, {}, <<"a">>, <<>>)>>)>>),
     HtmlSec(Str_Results,
         <<Content(<<H("p", <<>>, {}, <<"a">>, <<>>),
                     H("h2", <<"c-article__sub-heading">>, {}, <<"S">>, <<>>),
                     H("p", <<>>, {}, <<"b">>, <<>>),
                     H("h4", <<>>, {}, <<"U">>, <<>>),
                     H("p", <<>>, {}, <<"c">>, <<>>)>>)>>),
     HtmlSec(Str_Results, <<>>),
     HtmlSec(Str_Results,
         <<Content(<<H("div", <<>>, {}, <<>>,
                       <<H("figure", <<>>, {}, <<>>,
                           <<H("figcaption", <<>>, {}, <<"q">>, <<>>)>>)>>)>>)>>),
     HtmlSec(Str_References, <<Content(<<H("p", <<>>, {}, <<"r">>, <<>>)>>)>>),
     HtmlSec(Str_Acknowledgements, <<Content(<<H("p", <<>>, {}, <<"k">>, <<>>)>>)>>),
     HtmlSec(Str_Acknowledgments, <<Content(<<H("p", <<>>, {}, <<"k">>, <<>>)>>)>>),
     HtmlSec(Str_SupplementaryInformation,
         <<Content(<<H("p", <<>>, {}, <<>>,
                       <<H("a", <<>>, {<<"href", Str_SuppHref>>}, Str_SuppLink, <<>>)>>)>>)>>),
     HtmlSec(Str_SupplementaryInformation, <<Content(<<H("p", <<>>, {}, <<"n">>, <<>>)>>)>>)}

HtmlHeads ==
    {<<>>,
     <<H("meta", <<>>, {<<"name", "DOI">>, <<"content", <<"1", "0", ".", "1">>>>}, <<>>, <<>>)>>}

\* figure elements: empty, with a caption, with a label, with an id
HtmlFigs ==
    {H("figure", <<>>, {}, <<>>, <<>>),
     H("figure", <<>>, {}, <<>>, <<H("figcaption", <<>>, {}, <<"c">>, <<>>)>>),
     H("figure", <<>>, {}, <<>>, <<H("span", <<"figure-number">>, {}, <<"F">>, <<>>)>>),
     H("figure", <<>>, {<<"id", Str_g>>}, <<>>, <<H("figcaption", <<>>, {}, <<"c">>, <<>>)>>),
     H("figure", <<>>, {<<"data-id", Str_g>>}, <<>>, <<>>)}

\* table elements: empty, with a row of a data cell before a header cell,
\* with a head and a body
HtmlTables ==
    {H("table", <<>>, {}, <<>>, <<>>),
     H("table", <<>>, {}, <<>>,
       <<H("tr", <<>>, {}, <<>>, <<H("td", <<>>, {}, <<"a">>, <<>>), H("th", <<>>, {}, <<"h">>, <<>>)>>)>>),
     H("table", <<>>, {}, <<>>,
       <<H("thead", <<>>, {}, <<>>,
           <<H("tr", <<>>, {}, <<>>, <<H("th", <<>>, {}, <<"h">>, <<>>), H("th", <<>>, {}, <<"k">>, <<>>)>>)>>),
         H("tbody", <<>>, {}, <<>>,
           <<H("tr", <<>>, {}, <<>>, <<H("td", <<>>, {}, <<"a">>, <<>>), H("td", <<>>, {}, <<"b">>, <<>>)>>)>>)>>)}

\* a page that holds figures and tables only
HtmlFloatDocs ==
    {<<H("html", <<>>, {}, <<>>, <<H("body", <<>>, {}, <<>>, floats)>>)>> :
        floats \in SeqsUpTo(HtmlFigs \cup HtmlTables, MaxFloats)}

\* a page whose figures carry an id of the synthesized form or none
HtmlIdDocs ==
    {<<H("html", <<>>, {}, <<>>, <<H("body", <<>>, {}, <<>>, floats)>>)>> :
        floats \in SeqsUpTo({H("figure", <<>>, {<<"id", Str_F2>>}, <<>>,
                                <<H("figcaption", <<>>, {}, <<"c">>, <<>>)>>),
                              H("figure", <<>>, {}, <<>>,
                                <<H("figcaption", <<>>, {}, <<"d">>, <<>>)>>)}, MaxFloats)}

\* a page with a head and a short list of sections
HtmlSecDocs ==
    {<<H("html", <<>>, {}, <<>>,
         <<H("head", <<>>, {}, <<>>, head), H("body", <<>>, {}, <<>>, secs)>>)>> :
        head \in HtmlHeads, secs \in SeqsUpTo(HtmlSectionChoices, MaxHtmlSections)}

(***************************************************************************)
(* Text normalizer runs: strip_citations is applied to an input text and   *)
(* then to its own result.                                                 *)
(***************************************************************************)
TextChars == {"a", "1", " ", "\n", "[", "]", "(", ")", ",", "-", "."}
InnerChars == {"1", ",", "-", " "}
ProsePrefixes == {<<>>, <<"a">>, <<"a", " ">>, <<"a", "b", " ">>, <<"[", "1">>}
ProseSuffixes == {<<>>, <<".">>, <<" ", "b">>, <<"b">>, <<"]">>, <<" ", ".">>}

\* prose with one bracketed group in it: prefix [ inner ] suffix
CitedTexts ==
    {p \o <<"[">> \o g \o <<"]">> \o q :
        p \in ProsePrefixes, g \in SeqsUpTo(InnerChars, MaxInner), q \in ProseSuffixes}

TextInputs == SeqsUpTo(TextChars, MaxLen) \cup CitedTexts

LinkHrefs == SeqsUpTo({"#", "u", " "}, MaxLinkLen)
LinkTexts == SeqsUpTo({"t", " "}, MaxLinkLen)

TextIdle == text = <<>> /\ tcalls = 0 /\ once = NotRun /\ twice = NotRun
LinkIdle == href = <<>> /\ linkText = <<>> /\ linkOut = NotRun
MathIdle == mathStr = <<>> /\ mathOut = NotRun /\ mathLib = "none"
WalkIdle == walk = [pc |-> "idle"]
RunIdle == run = [pc |-> "idle"]
ParseIdle ==
    /\ docKind = "none"
    /\ doc = <<>>
    /\ parsePc = "idle"
    /\ parseOut = Outcome("none", "none", NoArticle)
    /\ calls = <<>>

InitText ==
    /\ WalkIdle
    /\ RunIdle
    /\ text \in TextInputs
    /\ tcalls = 0
    /\ once = NotRun
    /\ twice = NotRun
    /\ LinkIdle
    /\ MathIdle
    /\ ParseIdle

\* first call: strip_citations(text)
StripCitations ==
    /\ tcalls = 0
    /\ once' = strip_citations(text)
    /\ tcalls' = 1
    /\ UNCHANGED <<cliVars, text, twice, linkVars, mathVars, parseVars>>

\* second call, on the result of the first
StripCitationsAgain ==
    /\ tcalls = 1
    /\ twice' = strip_citations(once)
    /\ tcalls' = 2
    /\ UNCHANGED <<cliVars, text, once, linkVars, mathVars, parseVars>>

NextText == StripCitations \/ StripCitationsAgain

SpecText == InitText /\ [][NextText]_vars

InitLink ==
    /\ WalkIdle
    /\ RunIdle
    /\ href \in LinkHrefs
    /\ linkText \in LinkTexts
    /\ linkOut = NotRun
    /\ TextIdle
    /\ MathIdle
    /\ ParseIdle

LinkToMarkdown ==
    /\ linkOut = NotRun
    /\ linkOut' = link_to_markdown(href, linkText)
    /\ UNCHANGED <<cliVars, textVars, href, linkText, mathVars, parseVars>>

NextLink == LinkToMarkdown

SpecLink == InitLink /\ [][NextLink]_vars

InitMath ==
    /\ WalkIdle
    /\ RunIdle
    /\ mathStr \in MathInputs
    /\ mathLib \in {"converter", "arxiv_prism"}
    /\ mathOut = NotRun
    /\ TextIdle
    /\ LinkIdle
    /\ ParseIdle

MathmlToLatex ==
    /\ mathLib = "converter"
    /\ mathOut = NotRun
    /\ mathOut' = mathml_to_latex(mathStr)
    /\ UNCHANGED <<cliVars, textVars, linkVars, mathStr, mathLib, parseVars>>

PrismMathmlToLatex ==
    /\ mathLib = "arxiv_prism"
    /\ mathOut = NotRun
    /\ mathOut' = prism_mathml_to_latex(mathStr)
    /\ UNCHANGED <<cliVars, textVars, linkVars, mathStr, mathLib, parseVars>>

NextMath == MathmlToLatex \/ PrismMathmlToLatex

SpecMath == InitMath /\ [][NextMath]_vars

InitParse ==
    /\ WalkIdle
    /\ RunIdle
    /\ \/ /\ docKind = "xml"
          /\ \/ doc \in XmlSecDocs
             \/ doc \in XmlFloatDocs
             \/ doc \in XmlIdDocs
             \/ doc = ParseError
       \/ /\ docKind = "html"
          /\ \/ doc \in HtmlSecDocs
             \/ doc \in HtmlFloatDocs
             \/ doc \in HtmlIdDocs
    /\ parsePc = "idle"
    /\ parseOut = Outcome("none", "none", NoArticle)
    /\ calls = <<>>
    /\ TextIdle
    /\ LinkIdle
    /\ MathIdle

XMLParserParse ==
    /\ docKind = "xml"
    /\ parsePc = "idle"
    /\ parseOut' = XmlParse(doc)
    /\ parsePc' = "done"
    /\ UNCHANGED <<cliVars, textVars, linkVars, mathVars, docKind, doc, calls>>

HTMLParserParse ==
    /\ docKind = "html"
    /\ parsePc = "idle"
    /\ parseOut' = HtmlParse(doc[1])
    /\ parsePc' = "done"
    /\ UNCHANGED <<cliVars, textVars, linkVars, mathVars, docKind, doc, calls>>

NextParse == XMLParserParse \/ HTMLParserParse

SpecParse == InitParse /\ [][NextParse]_vars

(***************************************************************************)
(* Several parse calls, their steps interleaved.  A call computes the      *)
(* title, DOI, abstract and sections, then runs the loop of _get_figures   *)
(* and the loop of _get_tables, one element a step, on lists of its own,   *)
(* and returns the Article.                                                *)
(***************************************************************************)
\* the documents the calls are made on
CallDocs ==
    LET fl == X("fig", {}, <<>>, <<X("label", {}, <<"F">>, <<>>)>>)
        fc == X("fig", {}, <<>>, <<X("caption", {}, <<>>, <<Para(<<"c">>)>>)>>)
        tw == X("table-wrap", {}, <<>>, <<>>)
        hc == H("figure", <<>>, {}, <<>>, <<H("figcaption", <<>>, {}, <<"c">>, <<>>)>>)
        he == H("figure", <<>>, {}, <<>>, <<>>)
        ht == H("table", <<>>, {}, <<>>,
                <<H("tr", <<>>, {}, <<>>, <<H("td", <<>>, {}, <<"a">>, <<>>)>>)>>)
        Page(kids) == <<H("html", <<>>, {}, <<>>, <<H("body", <<>>, {}, <<>>, kids)>>)>>
    IN  {<<"xml", <<X("article", {}, <<>>, <<fl, fc>>)>>>>,
         <<"xml", <<X("article", {}, <<>>, <<fc, tw, tw>>)>>>>,
         <<"xml", <<X("article", {}, <<>>, <<>>)>>>>,
         <<"xml", ParseError>>,
         <<"html", Page(<<hc, he, hc>>)>>,
         <<"html", Page(<<ht, hc>>)>>}

\* the call parser.parse(doc) made alone
ParseAlone(kind, d) == IF kind = "xml" THEN XmlParse(d) ELSE HtmlParse(d[1])

\* a list that outlives the call: the one the latest other call left
ListOfLatestCall(held) == IF held = <<>> THEN <<>> ELSE held[Len(held)]

\* figures: list[Figure] = [] and tables: list[Table] = []: the list a loop
\* starts with, whatever lists (held) the other calls have built
NewList(held) == <<>>

InitCalls ==
    /\ WalkIdle
    /\ RunIdle
    /\ calls \in [1..MaxCalls ->
                  {[kind |-> kd[1], doc |-> kd[2], pc |-> "start", todo |-> <<>>,
                    figures |-> <<>>, tables |-> <<>>,
                    out |-> Outcome("none", "none", NoArticle)] : kd \in CallDocs}]
    /\ docKind = "none"
    /\ doc = <<>>
    /\ parsePc = "idle"
    /\ parseOut = Outcome("none", "none", NoArticle)
    /\ TextIdle
    /\ LinkIdle
    /\ MathIdle

\* the lists the calls other than i hold, in call order
HeldBy(field, i) ==
    LET Other(j) == j # i /\ calls[j].pc # "start"
        js == SelectSeq([j \in 1..MaxCalls |-> j], Other)
    IN  SubSeq([n \in 1..Len(js) |-> calls[js[n]][field]], 1, Len(js))

\* parse up to the call of _get_figures: an exception before it ends the call
ParseBegin(i) ==
    /\ calls[i].pc = "start"
    /\ LET c == calls[i]
           alone == ParseAlone(c.kind, c.doc)
           FigureElements(kind, d) ==
               IF kind = "xml" THEN WithTag(<<d[1]>> \o Descendants(d[1]), "fig", "")
               ELSE Named(Descendants(d[1]), {"figure"})
       IN  calls' = [calls EXCEPT ![i] =
               IF alone.stage = "raised"
               THEN [c EXCEPT !.pc = "done", !.out = alone]
               ELSE [c EXCEPT !.pc = "figures", !.todo = FigureElements(c.kind, c.doc),
                              !.figures = NewList(HeldBy("figures", i))]]
    /\ UNCHANGED <<cliVars, textVars, linkVars, mathVars, docKind, doc, parsePc, parseOut>>

\* one iteration of the loop of _get_figures, or the end of the loop and the
\* call of _get_tables
ParseFigure(i) ==
    /\ calls[i].pc = "figures"
    /\ LET c == calls[i]
           TableElements(kind, d) ==
               IF kind = "xml" THEN WithTag(<<d[1]>> \o Descendants(d[1]), "table-wrap", "")
               ELSE Named(Descendants(d[1]), {"table"})
       IN  calls' = [calls EXCEPT ![i] =
               IF c.todo = <<>>
               THEN [c EXCEPT !.pc = "tables", !.todo = TableElements(c.kind, c.doc),
                              !.tables = NewList(HeldBy("tables", i))]
               ELSE [c EXCEPT !.todo = Tail(c.todo),
                              !.figures = IF c.kind = "xml"
                                          THEN XmlFiguresFrom(<<Head(c.todo)>>, c.figures)
                                          ELSE HtmlFiguresFrom(<<Head(c.todo)>>, c.figures)]]
    /\ UNCHANGED <<cliVars, textVars, linkVars, mathVars, docKind, doc, parsePc, parseOut>>

\* one iteration of the loop of _get_tables, or the end of the loop and the
\* return of Article(...)
ParseTable(i) ==
    /\ calls[i].pc = "tables"
    /\ LET c == calls[i]
           Finished(alone) ==
               [alone EXCEPT !.article.figures = c.figures, !.article.tables = c.tables]
       IN  calls' = [calls EXCEPT ![i] =
               IF c.todo = <<>>
               THEN [c EXCEPT !.pc = "done", !.out = Finished(ParseAlone(c.kind, c.doc))]
               ELSE [c EXCEPT !.todo = Tail(c.todo),
                              !.tables = IF c.kind = "xml"
                                         THEN XmlTablesFrom(<<Head(c.todo)>>, c.tables)
                                         ELSE HtmlTablesFrom(<<Head(c.todo)>>, c.tables)]]
    /\ UNCHANGED <<cliVars, textVars, linkVars, mathVars, docKind, doc, parsePc, parseOut>>

NextCalls == \E i \in 1..MaxCalls : ParseBegin(i) \/ ParseFigure(i) \/ ParseTable(i)

SpecCalls == InitCalls /\ [][NextCalls]_vars

(***************************************************************************)
(* The section walk of HTMLParser._get_sections, one child of the content  *)
(* block at a time: the loop over content_div.children, the flush after    *)
(* it, and the loop that builds the Section tree from the blocks.          *)
(***************************************************************************)
MaxNodes == 4

Str_cite == <<"[", "1", "]">>

\* children of a content block: paragraphs with text, a paragraph that is
\* empty once cleaned, the three kinds of heading, a heading without text and
\* an h2 that is not a sub-heading
WalkNodes ==
    {H("p", <<>>, {}, <<"a">>, <<>>),
     H("div", <<>>, {}, <<"b">>, <<>>),
     H("p", <<>>, {}, Str_cite, <<>>),
     H("h2", <<"c-article__sub-heading">>, {}, <<"S">>, <<>>),
     H("h3", <<>>, {}, <<>>, <<>>),
     H("h4", <<>>, {}, <<"U">>, <<>>),
     H("h2", <<>>, {}, <<"N">>, <<>>)}

WalkTitles == {<<>>, <<"R">>}

InitWalk ==
    /\ \E title \in WalkTitles, nodes \in SeqsUpTo(WalkNodes, MaxNodes), inFigure \in BOOLEAN :
           walk = [pc |-> "walk", title |-> title, nodes |-> nodes, inFigure |-> inFigure,
                   i |-> 1, blocks |-> <<>>,
                   cur |-> [level |-> 1, title |-> title, parts |-> <<>>],
                   section |-> <<>>]
    /\ RunIdle
    /\ TextIdle
    /\ LinkIdle
    /\ MathIdle
    /\ ParseIdle

\* one iteration of the loop over content_div.children
WalkNode ==
    /\ walk.pc = "walk"
    /\ walk.i <= Len(walk.nodes)
    /\ LET Stepped(st) == [walk EXCEPT !.blocks = st.blocks, !.cur = st.cur, !.i = @ + 1]
       IN  walk' = Stepped(WalkStep(walk.nodes[walk.i], walk.inFigure,
                                    [blocks |-> walk.blocks, cur |-> walk.cur]))
    /\ UNCHANGED <<textVars, linkVars, mathVars, parseVars, run>>

\* the flush after the last child
WalkFinish ==
    /\ walk.pc = "walk"
    /\ walk.i > Len(walk.nodes)
    /\ walk' = [walk EXCEPT !.blocks = Flush(walk.blocks, walk.cur), !.pc = "flushed"]
    /\ UNCHANGED <<textVars, linkVars, mathVars, parseVars, run>>

\* the Section built from the blocks: the section's own title and the first
\* block's content, the later blocks as children
WalkBuild ==
    /\ walk.pc = "flushed"
    /\ walk' = [walk EXCEPT
                   !.section = IF walk.blocks = <<>>
                               THEN Section(walk.title, 1, <<>>, <<>>)
                               ELSE Section(walk.title, 1, walk.blocks[1].content,
                                            BuildChildren(walk.blocks, 2)),
                   !.pc = "built"]
    /\ UNCHANGED <<textVars, linkVars, mathVars, parseVars, run>>

NextWalk == WalkNode \/ WalkFinish \/ WalkBuild

SpecWalk == InitWalk /\ [][NextWalk]_vars

(***************************************************************************)
(* The command line (arxiv_prism/cli.py, converter/cli.py): one run of     *)
(* convert or of batch.  A path is its stem and its suffix; the output     *)
(* directory is a function from output names to what they hold.  The       *)
(* stage at which the conversion of a file raises, if any, is chosen when  *)
(* the file is reached.                                                    *)
(***************************************************************************)
MaxFiles == 3

Path(stem, suffix, isfile) == [stem |-> stem, suffix |-> suffix, isfile |-> isfile]
NameOf(p) == p.stem \o p.suffix

Str_html == <<".", "h", "t", "m", "l">>
Str_htm == <<".", "h", "t", "m">>
Str_xml == <<".", "x", "m", "l">>
Str_nxml == <<".", "n", "x", "m", "l">>
Str_md == <<".", "m", "d">>
Str_json == <<".", "j", "s", "o", "n">>

\* the entries an input directory may hold: a.html, a.xml, b.XML, b.txt and
\* the directory sub
DirEntries ==
    {Path(<<"a">>, Str_html, TRUE),
     Path(<<"a">>, Str_xml, TRUE),
     Path(<<"b">>, <<".", "X", "M", "L">>, TRUE),
     Path(<<"b">>, <<".", "t", "x", "t">>, TRUE),
     Path(<<"s", "u", "b">>, <<>>, FALSE)}

OutNames == {p.stem \o ext : p \in {q \in DirEntries : q.isfile}, ext \in {Str_md, Str_json}}

\* what an output name holds: nothing, the output of an earlier run, or the
\* output made from the named input; outdir0 is the directory as the run
\* found it
Absent == <<>>
Old == <<"old">>

Stages == {"none", "read", "parse", "format", "write"}

\* sorted(paths): ascending by name, characters compared by code point
SortedPaths(S) ==
    LET codes == <<".", "L", "M", "X", "a", "b", "h", "l", "m", "s", "t", "u", "x">>
        Ord(c) == CHOOSE n \in 1..Len(codes) : codes[n] = c
        Less(s, t) ==
            \E k \in 1..(Len(t)) :
                /\ \A m \in 1..(k - 1) : m <= Len(s) /\ s[m] = t[m]
                /\ (k > Len(s) \/ (k - 1 < Len(s) /\ Ord(s[k]) < Ord(t[k])))
        Before(p) == Cardinality({q \in S : Less(NameOf(q), NameOf(p))})
    IN  SubSeq([n \in 1..Cardinality(S) |-> CHOOSE p \in S : Before(p) = n - 1],
               1, Cardinality(S))

\* _detect_format(path): "html", "xml" or ""
DetectFormat(path) ==
    LET suf == SubSeq(Lower(path.suffix), 1, Len(path.suffix))
    IN  IF suf \in {Str_html, Str_htm} THEN "html"
        ELSE IF suf \in {Str_xml, Str_nxml} THEN "xml"
        ELSE ""

Echo(kind, name, counts) == [kind |-> kind, name |-> name, counts |-> counts]
Logged(name, out, result, read) == [name |-> name, out |-> out, result |-> result, read |-> read]

InitRun ==
    /\ \E cmd \in {"batch", "convert"}, pkg \in {"arxiv_prism", "converter"},
          flag \in BOOLEAN, quiet \in BOOLEAN,
          input_format \in {"auto", "html", "xml"}, output_format \in {"json", "markdown"},
          dir \in SUBSET DirEntries, old \in SUBSET {<<"a">>, <<"b">>},
          input_file \in {<<p>> : p \in {q \in DirEntries : q.isfile}},
          to_file \in BOOLEAN :
        /\ Cardinality(dir) <= MaxFiles
        /\ cmd = "convert" => dir = {}
        /\ cmd = "batch" => (input_file = <<Path(<<"a">>, Str_xml, TRUE)>> /\ ~to_file)
        /\ run = [pc |-> "start", cmd |-> cmd, pkg |-> pkg,
                  force |-> (pkg = "arxiv_prism" /\ flag),
                  skip_exist |-> (pkg = "converter" /\ flag),
                  quiet |-> quiet, input_format |-> input_format,
                  output_format |-> output_format, ext |-> <<>>,
                  dir |-> dir, input_file |-> input_file,
                  output |-> IF to_file
                             THEN <<<<"a">> \o (IF output_format = "json"
                                               THEN Str_json ELSE Str_md)>>
                             ELSE <<>>,
                  files |-> <<>>, total |-> 0, i |-> 1, ok |-> 0, skipped |-> 0,
                  echo |-> <<>>, log |-> <<>>, exit |-> 0,
                  outdir0 |-> [n \in OutNames |->
                                  IF \E s \in old : n = s \o (IF output_format = "json"
                                                             THEN Str_json ELSE Str_md)
                                  THEN Old ELSE Absent],
                  outdir |-> [n \in OutNames |->
                                 IF \E s \in old : n = s \o (IF output_format = "json"
                                                            THEN Str_json ELSE Str_md)
                                 THEN Old ELSE Absent]]
    /\ WalkIdle
    /\ TextIdle
    /\ LinkIdle
    /\ MathIdle
    /\ ParseIdle

\* arxiv_prism batch, up to the loop: the files are those of
\* _collect_input_files(input_dir)
ArxivBatchBegin ==
    /\ run.pc = "start" /\ run.cmd = "batch" /\ run.pkg = "arxiv_prism"
    /\ LET INPUT_EXTS == {Str_html, Str_htm, Str_xml, Str_nxml}
           Collected(p) == p.isfile /\ SubSeq(Lower(p.suffix), 1, Len(p.suffix)) \in INPUT_EXTS
           files == SortedPaths({p \in run.dir : Collected(p)})
           ext == IF run.output_format = "json" THEN Str_json ELSE Str_md
       IN  run' = IF files = <<>>
                  THEN [run EXCEPT !.pc = "done", !.ext = ext,
                                   !.echo = Append(@, Echo("no-files", <<>>, <<>>))]
                  ELSE [run EXCEPT !.pc = "loop", !.ext = ext, !.files = files,
                                   !.total = Len(files)]
    /\ UNCHANGED <<textVars, linkVars, mathVars, parseVars, walk>>

\* arxiv_prism batch, one iteration of the loop over the files
ArxivBatchFile ==
    /\ run.pc = "loop" /\ run.pkg = "arxiv_prism"
    /\ run.i <= Len(run.files)
    /\ LET path == run.files[run.i]
           out_path == path.stem \o run.ext
           fmt == IF run.input_format # "auto" THEN run.input_format ELSE DetectFormat(path)
           Next(r) == [r EXCEPT !.i = @ + 1]
           Failed(r) ==
               [r EXCEPT !.echo = IF r.quiet THEN @
                                  ELSE @ \o <<Echo("warning", NameOf(path), <<>>),
                                              Echo("failed", NameOf(path), <<>>)>>,
                         !.log = Append(@, Logged(NameOf(path), out_path, "failed", TRUE))]
           Written(r) ==
               [r EXCEPT !.outdir[out_path] = NameOf(path), !.ok = @ + 1,
                         !.log = Append(@, Logged(NameOf(path), out_path, "converted", TRUE))]
       IN  IF ~run.force /\ run.outdir[out_path] # Absent
           THEN run' = Next([run EXCEPT !.skipped = @ + 1,
                                 !.log = Append(@, Logged(NameOf(path), out_path, "skipped", FALSE))])
           ELSE IF fmt = ""
           THEN run' = Next([run EXCEPT
                                 !.echo = IF run.quiet THEN @
                                          ELSE Append(@, Echo("warning", NameOf(path), <<>>)),
                                 !.log = Append(@, Logged(NameOf(path), out_path, "unknown", FALSE))])
           ELSE \E stage \in Stages :
                    run' = Next(IF stage = "none" THEN Written(run) ELSE Failed(run))
    /\ UNCHANGED <<textVars, linkVars, mathVars, parseVars, walk>>

\* the summary after the loop of batch, the same in both packages
BatchSummary ==
    /\ run.pc = "loop"
    /\ run.i > Len(run.files)
    /\ run' = [run EXCEPT !.pc = "done",
                          !.echo = Append(@, Echo("summary", <<>>,
                                                  <<run.ok, run.total, run.skipped>>))]
    /\ UNCHANGED <<textVars, linkVars, mathVars, parseVars, walk>>

\* converter batch, up to the loop: the files are the entries of the directory
ConverterBatchBegin ==
    /\ run.pc = "start" /\ run.cmd = "batch" /\ run.pkg = "converter"
    /\ LET ext == IF run.output_format = "json" THEN Str_json ELSE Str_md
       IN  run' = IF run.dir = {}
                  THEN [run EXCEPT !.pc = "done", !.ext = ext,
                                   !.echo = Append(@, Echo("no-files", <<>>, <<>>))]
                  ELSE [run EXCEPT !.pc = "loop", !.ext = ext,
                                   !.files = SortedPaths(run.dir),
                                   !.total = Cardinality(run.dir)]
    /\ UNCHANGED <<textVars, linkVars, mathVars, parseVars, walk>>

\* converter batch, one iteration of the loop over sorted(files)
ConverterBatchFile ==
    /\ run.pc = "loop" /\ run.pkg = "converter"
    /\ run.i <= Len(run.files)
    /\ LET path == run.files[run.i]
           out_path == path.stem \o run.ext
           fmt == IF run.input_format # "auto" THEN run.input_format ELSE DetectFormat(path)
           \* HTMLParser.parse of this package raises for every page
           stages == IF fmt = "html" THEN {"read", "parse"} ELSE Stages
           Next(r) == [r EXCEPT !.i = @ + 1]
           Failed(r) ==
               [r EXCEPT !.echo = (IF r.quiet THEN @
                                   ELSE Append(@, Echo("warning", NameOf(path), <<>>)))
                                  \o <<Echo("failed", NameOf(path), <<>>)>>,
                         !.log = Append(@, Logged(NameOf(path), out_path, "failed", TRUE))]
           Written(r) ==
               [r EXCEPT !.outdir[out_path] = NameOf(path), !.ok = @ + 1,
                         !.echo = Append(@, Echo("converted", NameOf(path), <<>>)),
                         !.log = Append(@, Logged(NameOf(path), out_path, "converted", TRUE))]
       IN  IF ~path.isfile THEN run' = Next(run)
           ELSE IF run.skip_exist /\ run.outdir[out_path] # Absent
           THEN run' = Next([run EXCEPT !.skipped = @ + 1,
                                 !.echo = Append(@, Echo("skipping", NameOf(path), <<>>)),
                                 !.log = Append(@, Logged(NameOf(path), out_path, "skipped", FALSE))])
           ELSE IF fmt = ""
           THEN run' = Next([run EXCEPT
                                 !.echo = IF run.quiet THEN @
                                          ELSE Append(@, Echo("warning", NameOf(path), <<>>)),
                                 !.log = Append(@, Logged(NameOf(path), out_path, "unknown", FALSE))])
           ELSE \E stage \in stages :
                    run' = Next(IF stage = "none" THEN Written(run) ELSE Failed(run))
    /\ UNCHANGED <<textVars, linkVars, mathVars, parseVars, walk>>

\* a convert that reads and converts the file whether or not the output exists
ArxivConvertAlways ==
    /\ run.pc = "start" /\ run.cmd = "convert" /\ run.pkg = "arxiv_prism"
    /\ \E stage \in Stages :
           run' = [run EXCEPT
                      !.pc = "done",
                      !.outdir = IF stage = "none" /\ run.output # <<>>
                                 THEN [@ EXCEPT ![run.output[1]] = NameOf(run.input_file[1])]
                                 ELSE @,
                      !.log = Append(@, Logged(NameOf(run.input_file[1]), run.output,
                                               IF stage = "none" THEN "converted" ELSE "failed",
                                               TRUE))]
    /\ UNCHANGED <<textVars, linkVars, mathVars, parseVars, walk>>

\* arxiv_prism convert
ArxivConvert ==
    /\ run.pc = "start" /\ run.cmd = "convert" /\ run.pkg = "arxiv_prism"
    /\ LET path == run.input_file[1]
           fmt == IF run.input_format # "auto" THEN run.input_format ELSE DetectFormat(path)
           Done(r) == [r EXCEPT !.pc = "done"]
           Exists == run.output # <<>> /\ run.outdir[run.output[1]] # Absent
           Failed(r) ==
               [r EXCEPT !.echo = @ \o <<Echo("exception", NameOf(path), <<>>),
                                         Echo("error", NameOf(path), <<>>)>>,
                         !.exit = 1,
                         !.log = Append(@, Logged(NameOf(path), r.output, "failed", TRUE))]
           Written(r) ==
               IF r.output # <<>>
               THEN [r EXCEPT !.outdir[r.output[1]] = NameOf(path),
                              !.log = Append(@, Logged(NameOf(path), r.output, "converted", TRUE))]
               ELSE [r EXCEPT !.echo = Append(@, Echo("stdout", NameOf(path), <<>>)),
                              !.log = Append(@, Logged(NameOf(path), r.output, "converted", TRUE))]
       IN  IF ~run.force /\ Exists THEN run' = Done(run)
           ELSE IF fmt = "" THEN run' = Done([run EXCEPT !.exit = 2])
           ELSE \E stage \in Stages :
                    run' = Done(IF stage = "none" THEN Written(run) ELSE Failed(run))
    /\ UNCHANGED <<textVars, linkVars, mathVars, parseVars, walk>>

\* converter convert
ConverterConvert ==
    /\ run.pc = "start" /\ run.cmd = "convert" /\ run.pkg = "converter"
    /\ LET path == run.input_file[1]
           fmt == IF run.input_format # "auto" THEN run.input_format ELSE DetectFormat(path)
           \* HTMLParser.parse of this package raises for every page
           stages == IF fmt = "html" THEN {"read", "parse"} ELSE Stages
           Done(r) == [r EXCEPT !.pc = "done"]
           Exists == run.output # <<>> /\ run.outdir[run.output[1]] # Absent
           Failed(r) ==
               [r EXCEPT !.echo = @ \o <<Echo("exception", NameOf(path), <<>>),
                                         Echo("error", NameOf(path), <<>>)>>,
                         !.exit = 1,
                         !.log = Append(@, Logged(NameOf(path), r.output, "failed", TRUE))]
           Written(r) ==
               IF r.output # <<>>
               THEN [r EXCEPT !.outdir[r.output[1]] = NameOf(path),
                              !.log = Append(@, Logged(NameOf(path), r.output, "converted", TRUE))]
               ELSE [r EXCEPT !.echo = Append(@, Echo("stdout", NameOf(path), <<>>)),
                              !.log = Append(@, Logged(NameOf(path), r.output, "converted", TRUE))]
       IN  IF run.skip_exist /\ Exists
           THEN run' = Done([run EXCEPT !.echo = Append(@, Echo("skipping", NameOf(path), <<>>))])
           ELSE IF fmt = "" THEN run' = Done([run EXCEPT !.exit = 2])
           ELSE \E stage \in stages :
                    run' = Done(IF stage = "none" THEN Written(run) ELSE Failed(run))
    /\ UNCHANGED <<textVars, linkVars, mathVars, parseVars, walk>>

NextRun ==
    \/ ArxivBatchBegin \/ ArxivBatchFile
    \/ ConverterBatchBegin \/ ConverterBatchFile
    \/ BatchSummary
    \/ ArxivConvert \/ ConverterConvert

SpecRun == InitRun /\ [][NextRun]_vars

\* a command that can take a step takes it: neither loop waits for anything
SpecRunFair == SpecRun /\ WF_vars(NextRun)

(***************************************************************************)
(* Claims about the text normalizer.                                       *)
(***************************************************************************)
Letters == {"a", "b"}
Count(c, t) == Cardinality({i \in 1..Len(t) : t[i] = c})
IsWord(s) == s # <<>> /\ \A i \in 1..Len(s) : s[i] \in Letters
NoEdgeWhitespace(s) == s = <<>> \/ (s[1] \notin Ws /\ s[Len(s)] \notin Ws)

\* s is a square-bracketed group of integers separated by one comma or hyphen
\* each, with optional whitespace around the integers
IsCitationGroup(s) ==
    /\ Len(s) >= 3
    /\ s[1] = "[" /\ s[Len(s)] = "]"
    /\ LET inner == Strip(SubSeq(s, 2, Len(s) - 1))
           n == Len(inner)
       IN  /\ n >= 1
           /\ inner[1] \in Digits /\ inner[n] \in Digits
           /\ \A i \in 1..n : inner[i] \in Digits \cup Ws \cup BracketSeps
           /\ \A i \in 1..n : \A j \in (i + 2)..n :
                 (/\ inner[i] \in Digits /\ inner[j] \in Digits
                  /\ \A m \in (i + 1)..(j - 1) : inner[m] \notin Digits)
                 => Cardinality({m \in (i + 1)..(j - 1) : inner[m] \in BracketSeps}) = 1

\* the occurrences <<first, last>> of citation groups in t
GroupsIn(t) ==
    {ij \in (1..Len(t)) \X (1..Len(t)) :
        ij[1] < ij[2] /\ IsCitationGroup(SubSeq(t, ij[1], ij[2]))}

RECURSIVE SumLen(_)
SumLen(G) ==
    IF G = {} THEN 0
    ELSE LET g == CHOOSE x \in G : TRUE
         IN  (g[2] - g[1] + 1) + SumLen(G \ {g})

\* C3: the normalizer is idempotent: strip_citations(strip_citations(x)) =
\* strip_citations(x) for every text x.
C3_Idempotent == tcalls = 2 => twice = once

\* C8: the result of strip_citations has no leading and no trailing whitespace,
\* for every input text, whitespace-only text included.
C8_Trimmed == tcalls >= 1 => NoEdgeWhitespace(once)

\* C9: every bracketed numeric citation group of the input is deleted and
\* nothing is put in its place (the result has exactly the input's other
\* brackets, and is shorter than the input by at least the groups' length);
\* prose words around a space-delimited group are kept and separated by a
\* single space, and a period after the group is attached to the preceding
\* word.
C9_CitationsDeleted ==
    tcalls >= 1 =>
        LET G == GroupsIn(text)
        IN  /\ Count("[", once) = Count("[", text) - Cardinality(G)
            /\ Count("]", once) = Count("]", text) - Cardinality(G)
            /\ Len(once) + SumLen(G) <= Len(text)
            /\ \A g \in G :
                 LET before == SubSeq(text, 1, g[1] - 2)
                     after  == SubSeq(text, g[2] + 1, Len(text))
                 IN  /\ (/\ IsWord(before) /\ At(text, g[1] - 1) = " "
                         /\ Len(after) >= 2 /\ after[1] = " " /\ IsWord(Tail(after)))
                        => once = before \o after
                     /\ (IsWord(before) /\ At(text, g[1] - 1) = " " /\ after = <<".">>)
                        => once = before \o <<".">>

\* a citation group between two words, and a citation group before a period
C9_Witness ==
    /\ tcalls >= 1
    /\ text = <<"a", " ", "[", "1", ",", "1", "]", " ", "b">>
    /\ once = <<"a", " ", "b">>

C9_WitnessPeriod ==
    /\ tcalls >= 1
    /\ text = <<"a", " ", "[", "1", "]", ".">>
    /\ once = <<"a", ".">>

\* C10: link_to_markdown returns the visible text unchanged when href is empty
\* or starts with '#', and otherwise "[text](href)" with href as the display
\* text when text is empty.
C10_LinkToMarkdown ==
    linkOut # NotRun =>
        linkOut = IF href = <<>> \/ Head(href) = "#" THEN linkText
                  ELSE <<"[">> \o (IF linkText = <<>> THEN href ELSE linkText)
                       \o <<"]", "(">> \o href \o <<")">>

(***************************************************************************)
(* Claims about the MathML converter.                                      *)
(***************************************************************************)
CountKind(k, toks) == Cardinality({i \in 1..Len(toks) : toks[i][1] = k})

MathRoot == fromstring(mathStr)[1]
MathConverted == mathOut # NotRun /\ fromstring(mathStr) # ParseError

\* the conversion of a child of the root, by the package called
ChildLatex(el) == IF mathLib = "converter" THEN ConvEl(el, 2) ELSE PrismConvEl(el, 2)

\* the conversion of the i-th child of el, "" when el has no i-th child
NthLatex(el, i) == IF i <= Len(el.kids) THEN ChildLatex(el.kids[i]) ELSE <<>>

Str_frac == <<"\\", "f", "r", "a", "c">>

\* C11: script and fraction elements map positionally: msup gives {c1}^{c2},
\* msub {c1}_{c2}, msubsup {c1}_{c2}^{c3} and mfrac \frac{c1}{c2}, where ci is
\* the conversion of the i-th child, "" when that child is absent, and later
\* children are ignored; <msup><mi>x</mi><mn>2</mn></msup> gives {x}^{2} and
\* <mfrac><mn>1</mn><mn>2</mn></mfrac> gives \frac{1}{2}.
C11_ScriptsPositional ==
    (MathConverted /\ MathRoot.tag \in ScriptTags) =>
        LET c1 == NthLatex(MathRoot, 1)
            c2 == NthLatex(MathRoot, 2)
            c3 == NthLatex(MathRoot, 3)
            tag == MathRoot.tag
        IN  mathOut =
              Caught(CASE tag = "msup" -> Cat(<<<<"{">>, c1, <<"}", "^", "{">>, c2, <<"}">>>>)
                       [] tag = "msub" -> Cat(<<<<"{">>, c1, <<"}", "_", "{">>, c2, <<"}">>>>)
                       [] tag = "msubsup" ->
                            Cat(<<<<"{">>, c1, <<"}", "_", "{">>, c2, <<"}", "^", "{">>, c3, <<"}">>>>)
                       [] tag = "mfrac" ->
                            Cat(<<Str_frac, <<"{">>, c1, <<"}", "{">>, c2, <<"}">>>>))

\* <msup><mi>x</mi><mn>2</mn></msup> converted to {x}^{2}
C11_Witness ==
    /\ mathStr = Serialize(X("msup", {}, <<>>,
                             <<X("mi", {}, <<"x">>, <<>>), X("mn", {}, <<"2">>, <<>>)>>))
    /\ mathLib = "converter"
    /\ mathOut # NotRun /\ mathOut = <<"{", "x", "}", "^", "{", "2", "}">>

\* <mfrac><mn>1</mn><mn>2</mn></mfrac> converted to \frac{1}{2}
C11_WitnessFrac ==
    /\ mathStr = Serialize(X("mfrac", {}, <<>>,
                             <<X("mn", {}, <<"1">>, <<>>), X("mn", {}, <<"2">>, <<>>)>>))
    /\ mathOut # NotRun /\ mathOut = Str_frac \o <<"{", "1", "}", "{", "2", "}">>

\* msubsup with one child only, and with a fourth child
C11_WitnessAbsent ==
    /\ mathStr = Serialize(X("msubsup", {}, <<>>, <<X("mi", {}, <<"x">>, <<>>)>>))
    /\ mathOut # NotRun /\ mathOut = <<"{", "x", "}", "_", "{", "}", "^", "{", "}">>

\* the element kinds _mathml_to_latex_el has a branch for, in each package
RecognizedTags ==
    {"math", "mrow", "mi", "mn", "mo", "msup", "msub", "mfrac", "msqrt", "mroot", "mover",
     "munder", "msubsup", "mtable", "mtr", "mtd", "mfenced", "munderover"}
    \cup (IF mathLib = "arxiv_prism" THEN {"mtext", "mspace"} ELSE {})

\* mathml_to_latex of the package called
LibMathmlToLatex(toks) ==
    IF mathLib = "converter" THEN mathml_to_latex(toks) ELSE prism_mathml_to_latex(toks)

C12_WitnessWrapped ==
    /\ mathStr = Serialize(X("mtext", {}, <<>>, <<X("mi", {}, <<"x">>, <<>>)>>))
    /\ mathLib = "converter"
    /\ mathOut # NotRun /\ mathOut = <<"x">>

\* the MathML string with no tag qualified
Unqualified(toks) ==
    SubSeq([i \in 1..Len(toks) |-> IF Len(toks[i]) = 3 THEN SubSeq(toks[i], 1, 2) ELSE toks[i]],
           1, Len(toks))

\* C13: the conversion does not depend on namespace qualification: a tree
\* with every tag qualified by the MathML namespace converts to the LaTeX the
\* same tree with plain tag names converts to, mtable with its mtr rows and
\* mtd cells included.
C13_NamespaceIndependent ==
    mathOut # NotRun => mathOut = LibMathmlToLatex(Unqualified(mathStr))

(***************************************************************************)
(* Claims about the parsers.                                               *)
(***************************************************************************)
\* every Section of a list of trees
RECURSIVE AllSections(_)
AllSections(secs) ==
    IF secs = <<>> THEN {}
    ELSE {Head(secs)} \cup AllSections(Head(secs).children) \cup AllSections(Tail(secs))

Returned == parsePc = "done" /\ parseOut.stage = "returned"
\* the parser reached the Article constructor: parseOut.article holds what it
\* computed for each field
Built == parsePc = "done" /\ parseOut.stage \in {"returned", "rejected"}

\* C1: in every Article a parser returns, no Section of level 3 has nested
\* sections.
C1_Level3HasNoChildren ==
    Returned =>
        \A sec \in AllSections(parseOut.article.sections) :
            sec.level = 3 => sec.children = <<>>

\* C2: in every Article a parser returns, each nested Section has exactly its
\* parent's level plus one.
C2_ChildOneLevelDeeper ==
    Returned =>
        \A sec \in AllSections(parseOut.article.sections) :
            \A i \in 1..Len(sec.children) : sec.children[i].level = sec.level + 1

EndMarkers ==
    {<<"A", "c", "k", "n", "o", "w", "l", "e", "d", "g", "e", "m", "e", "n", "t", "s">>,
     <<"A", "c", "k", "n", "o", "w", "l", "e", "d", "g", "m", "e", "n", "t", "s">>}
IsEndMarker(el) == el.tag = "section" /\ GetAttr(el, "data-title", <<>>) \in EndMarkers

\* the section elements of the page's body before the first end marker
RECURSIVE BeforeEndMarker(_)
BeforeEndMarker(els) ==
    IF els = <<>> \/ IsEndMarker(Head(els)) THEN <<>>
    ELSE <<Head(els)>> \o BeforeEndMarker(Tail(els))

\* the page with everything from the first end-marker section on cut away
CutAtEndMarker(soup) ==
    [soup EXCEPT !.kids[2].kids = BeforeEndMarker(@)]

\* C4: the HTML parser stops at the first section titled Acknowledgements or
\* Acknowledgments: the sections it gives the Article are those of the page
\* cut at that section, and none of them carries an end-marker title.
C4_StopsAtAcknowledgements ==
    (Built /\ docKind = "html") =>
        /\ parseOut.article.sections = HtmlGetSections(CutAtEndMarker(doc[1]))
        /\ \A i \in 1..Len(parseOut.article.sections) :
              parseOut.article.sections[i].title \notin EndMarkers

\* C5: the supplementary list of the Article is empty for every document,
\* with either parser.
C5_SupplementaryEmpty == Built => parseOut.article.supplementary = <<>>

IsFormula(el) == IsTag(el, "disp-formula") \/ IsTag(el, "inline-formula")
FormulaFails(el) == IsFormula(el) /\ FormulaToLatex(el, IsTag(el, "disp-formula")) = Raised

\* el without the formula children of its sec elements whose conversion fails
RECURSIVE DropFailing(_)
RECURSIVE DropFailingKids(_, _)
DropFailing(el) == [el EXCEPT !.kids = DropFailingKids(@, IsTag(el, "sec"))]
DropFailingKids(kids, inSec) ==
    IF kids = <<>> THEN <<>>
    ELSE (IF inSec /\ FormulaFails(Head(kids)) THEN <<>> ELSE <<DropFailing(Head(kids))>>)
         \o DropFailingKids(Tail(kids), inSec)

HasFailingFormula(el) == \E k \in Range(<<el>> \o Descendants(el)) : FormulaFails(k)

\* C7: a formula whose conversion raises contributes the empty string and
\* nothing else changes: the parse gives what it gives for the document
\* without that formula.
C7_FormulaFailureContained ==
    (parsePc = "done" /\ docKind = "xml" /\ doc # ParseError /\ HasFailingFormula(doc[1])) =>
        parseOut = XmlParse(<<DropFailing(doc[1])>>)

\* the figures and tables of the outcome
Figures == parseOut.article.figures
Tables == parseOut.article.tables

\* the fig or figure elements of the document, in document order
DocFigures ==
    IF docKind = "xml" THEN WithTag(<<doc[1]>> \o Descendants(doc[1]), "fig", "")
    ELSE Named(Descendants(doc[1]), {"figure"})

\* the entries the parser called makes of a list of figure elements
FiguresOf(figs) ==
    IF docKind = "xml" THEN XmlFiguresFrom(figs, <<>>) ELSE HtmlFiguresFrom(figs, <<>>)

\* C14: a figure element with neither label nor caption gives no entry in
\* Article.figures and uses up no synthesized id (the entries are those of the
\* document without such figures), and every entry has a label or a caption,
\* in both parsers.
C14_EmptyFiguresSkipped ==
    Built =>
        LET Material(fig) ==
                LET e == FiguresOf(<<fig>>)
                IN  e # <<>> /\ (e[1].label # <<>> \/ e[1].caption # <<>>)
        IN  /\ \A i \in 1..Len(Figures) : Figures[i].label # <<>> \/ Figures[i].caption # <<>>
            /\ Figures = FiguresOf(SelectSeq(DocFigures, Material))

\* the table-wrap or table elements of the document, in document order
DocTables ==
    IF docKind = "xml" THEN WithTag(<<doc[1]>> \o Descendants(doc[1]), "table-wrap", "")
    ELSE Named(Descendants(doc[1]), {"table"})

\* the element carries an id of its own
HasSourceId(el) == GetAttr(el, "id", <<>>) # <<>> \/ GetAttr(el, "data-id", <<>>) # <<>>

\* the figure elements the parser called records
RecordedFigures ==
    LET Recorded(fig) == FiguresOf(<<fig>>) # <<>>
    IN  SelectSeq(DocFigures, Recorded)

\* C15: when no recorded figure has an id in the source, the ids of
\* Article.figures are F1, F2, ..., Fk in document order (so pairwise
\* distinct), in both parsers; when no table has one, the ids of
\* Article.tables are T1, T2, ... in document order.
C15_SynthesizedIdsInOrder ==
    Built =>
        /\ (\A i \in 1..Len(RecordedFigures) : ~HasSourceId(RecordedFigures[i])) =>
               /\ Len(Figures) = Len(RecordedFigures)
               /\ \A i \in 1..Len(Figures) : Figures[i].id = <<"F">> \o IntToStr(i)
               /\ \A i, j \in 1..Len(Figures) : i # j => Figures[i].id # Figures[j].id
        /\ (\A i \in 1..Len(DocTables) : ~HasSourceId(DocTables[i])) =>
               /\ \A i \in 1..Len(Tables) : Tables[i].id = <<"T">> \o IntToStr(i)
               /\ \A i, j \in 1..Len(Tables) : i # j => Tables[i].id # Tables[j].id

\* three figures without id, the second one a caption only: F1, F2, F3
C15_Witness ==
    /\ Built /\ docKind = "xml"
    /\ Len(Figures) = 3
    /\ \A i \in 1..3 : GetAttr(DocFigures[i], "id", <<>>) = <<>>
    /\ Figures[2].label = <<>>
    /\ Figures[3].id = <<"F", "3">>

\* a page whose second figure is not recorded: the third one is F2
C15_WitnessHtml ==
    /\ Built /\ docKind = "html"
    /\ Len(DocFigures) = 3 /\ Len(Figures) = 2
    /\ Figures[2].id = <<"F", "2">>

\* two tables without id: T1, T2
C15_WitnessTables ==
    /\ Built /\ Len(Tables) = 2
    /\ \A i \in 1..Len(DocTables) : ~HasSourceId(DocTables[i])
    /\ Tables[2].id = <<"T", "2">>

\* an xref element with ref-type="bibr"
IsBibr(el) == IsTag(el, "xref") /\ GetAttr(el, "ref-type", <<>>) = <<"b", "i", "b", "r">>

\* el with the content of every bibr xref below it removed, tails kept
RECURSIVE WithoutBibrContent(_)
WithoutBibrContent(el) ==
    LET n == Len(el.kids)
        Emptied(kid) ==
            IF IsBibr(kid) THEN [kid EXCEPT !.text = <<>>, !.kids = <<>>]
            ELSE WithoutBibrContent(kid)
    IN  [el EXCEPT !.kids = SubSeq([i \in 1..n |-> Emptied(el.kids[i])], 1, n)]

\* the text and tails below el in document order, bibr xref content left out
RECURSIVE KeptText(_)
RECURSIVE KeptTextKids(_)
KeptText(el) == el.text \o KeptTextKids(el.kids)
KeptTextKids(kids) ==
    IF kids = <<>> THEN <<>>
    ELSE (IF IsBibr(Head(kids)) THEN <<>> ELSE KeptText(Head(kids)))
         \o Head(kids).tail \o KeptTextKids(Tail(kids))

\* the p elements that are children of a sec of the document
DocParagraphs ==
    LET InSec(el) == IsTag(el, "sec")
        secs == SelectSeq(Descendants(doc[1]), InSec)
        RECURSIVE ParasOf(_)
        ParasOf(ss) == IF ss = <<>> THEN <<>> ELSE WithTag(Head(ss).kids, "p", "") \o ParasOf(Tail(ss))
    IN  ParasOf(secs)

HasTagBelow(el, tag) == WithTag(Descendants(el), tag, "") # <<>>

\* C16: XML paragraph extraction drops the content of every bibr xref at any
\* depth in the paragraph and keeps its tail, and keeps the text and tail of
\* every other element in document order: the parse gives what it gives for
\* the document with the bibr contents removed, and a paragraph of plain
\* inline elements gives its kept text, whitespace and citations normalized;
\* <p>a <xref ref-type="bibr">1</xref>.</p> gives "a.".
C16_BibrDropped ==
    (parsePc = "done" /\ docKind = "xml" /\ doc # ParseError) =>
        /\ parseOut = XmlParse(<<WithoutBibrContent(doc[1])>>)
        /\ \A i \in 1..Len(DocParagraphs) :
              LET p == DocParagraphs[i]
              IN  ~(HasTagBelow(p, "ext-link") \/ HasTagBelow(p, "inline-formula")) =>
                      ExtractParagraphText(p) = strip_citations(Norm(KeptText(p)))

\* el with every formula element below it replaced by its LaTeX between
\* dollar signs, as text (left as it is when the conversion raises)
RECURSIVE WithFormulasConverted(_)
WithFormulasConverted(el) ==
    LET n == Len(el.kids)
        AsText(kid, latex) ==
            IF latex = Raised THEN kid ELSE [kid EXCEPT !.text = latex, !.kids = <<>>]
        Converted(kid) ==
            IF IsFormula(kid) THEN AsText(kid, FormulaToLatex(kid, IsTag(kid, "disp-formula")))
            ELSE WithFormulasConverted(kid)
    IN  [el EXCEPT !.kids = SubSeq([i \in 1..n |-> Converted(el.kids[i])], 1, n)]

\* el with the formulas below its p elements converted
RECURSIVE WithParagraphFormulasConverted(_)
WithParagraphFormulasConverted(el) ==
    LET n == Len(el.kids)
        Below(kid) ==
            IF IsTag(kid, "p") THEN WithFormulasConverted(kid)
            ELSE WithParagraphFormulasConverted(kid)
    IN  [el EXCEPT !.kids = SubSeq([i \in 1..n |-> Below(el.kids[i])], 1, n)]

\* C17: every inline-formula or disp-formula of a section, a direct child of
\* the sec or nested in a p, puts in Section.content the converter's LaTeX
\* for its math element between $...$ or $$...$$, never the text of the
\* MathML nodes: the parse gives what it gives for the document whose
\* paragraphs hold that LaTeX in place of the formulas.
C17_FormulasInParagraphs ==
    (parsePc = "done" /\ docKind = "xml" /\ doc # ParseError) =>
        parseOut = XmlParse(<<WithParagraphFormulasConverted(doc[1])>>)

\* a document that is accepted by the parser and holds nothing: a lone
\* article element, or a page of an empty head and body
LacksEverything ==
    /\ doc # ParseError
    /\ doc[1].text = <<>>
    /\ \A el \in Range(Descendants(doc[1])) :
          el.tag \in {"head", "body"} /\ el.text = <<>> /\ el.attrs = {}

\* C18: a document without title, DOI, abstract, sections, figures and tables
\* is parsed without an exception, by either parser, to the Article with title
\* "Untitled", no doi, abstract "" and empty sections, figures and tables;
\* the title of every Article returned is non-empty, and the Article is built
\* from fields the Article model declares only.
C18_MissingFieldsDefault ==
    parsePc = "done" =>
        /\ LacksEverything =>
              /\ parseOut.stage = "returned"
              /\ parseOut.article.title = Untitled
              /\ parseOut.article.doi = <<>>
              /\ parseOut.article.abstract = <<>>
              /\ parseOut.article.sections = <<>>
              /\ parseOut.article.figures = <<>>
              /\ parseOut.article.tables = <<>>
        /\ parseOut.stage = "returned" => parseOut.article.title # <<>>
        /\ parseOut.stage \in {"returned", "rejected"} =>
              DOMAIN parseOut.article \subseteq ArticleFields

\* C19: each parse is a function of its input only: whatever the sequence or
\* interleaving of the calls, each call ends with the outcome of the same
\* document parsed alone; the ids it synthesizes start at F1 and T1, and no
\* list of one call is seen by another.
C19_ParseIsPure ==
    \A i \in DOMAIN calls :
        calls[i].pc = "done" => calls[i].out = ParseAlone(calls[i].kind, calls[i].doc)

\* the second call returns ids F1, F2 although the first call, on another
\* document with figures, ran before and during it
C19_Witness ==
    /\ calls # <<>>
    /\ calls[1].pc = "done" /\ calls[2].pc = "done"
    /\ calls[1].doc # calls[2].doc
    /\ calls[1].out.stage = "returned" /\ Len(calls[1].out.article.figures) = 2
    /\ calls[2].kind = "xml" /\ calls[2].out.stage = "returned"
    /\ Len(calls[2].out.article.figures) = 1 /\ Len(calls[2].out.article.tables) = 2
    /\ calls[2].out.article.figures[1].id = <<"F", "1">>
    /\ calls[2].out.article.tables[2].id = <<"T", "2">>

\* the rows of a table element in document order, each the texts of its
\* header and data cells in document order (a row without cells is none)
RowsInDocumentOrder(tbl) ==
    LET IsCell(el) == el.tag \in {"td", "th"}
        CellsOf(tr) ==
            IF docKind = "xml" THEN NormTexts(SelectSeq(tr.kids, IsCell))
            ELSE ElementTexts(Named(Descendants(tr), {"th", "td"}))
        trs == IF docKind = "xml" THEN WithTag(Descendants(tbl), "tr", "")
               ELSE Named(Descendants(tbl), {"tr"})
        HasCells(r) == r # <<>>
    IN  SelectSeq(SubSeq([i \in 1..Len(trs) |-> CellsOf(trs[i])], 1, Len(trs)), HasCells)

\* the table elements behind the entries of Article.tables, in order: the
\* table of every table-wrap, every table of a page that has a row
SourceTables ==
    LET Rowed(el) == Named(Descendants(el), {"tr"}) # <<>>
        TableOf(wrap) ==
            IF Find(wrap, "table") # <<>> THEN Find(wrap, "table")[1] ELSE X("table", {}, <<>>, <<>>)
    IN  IF docKind = "xml"
        THEN SubSeq([i \in 1..Len(DocTables) |-> TableOf(DocTables[i])], 1, Len(DocTables))
        ELSE SelectSeq(DocTables, Rowed)

\* C20: in every Table of either parser, data holds the rows of the table in
\* document order and in each row the cells, header and data cells alike, in
\* document order.
C20_CellsInDocumentOrder ==
    Built =>
        /\ Len(Tables) = Len(SourceTables)
        /\ \A k \in 1..Len(Tables) : Tables[k].data = RowsInDocumentOrder(SourceTables[k])

(***************************************************************************)
(* Claims about the section walk of the HTML parser.                       *)
(***************************************************************************)
\* the level a child of the content block opens as a heading: 2 for an h2 of
\* class c-article__sub-heading and for an h3, 3 for an h4, 0 otherwise
OpensLevel(node) ==
    IF node.tag = "h4" THEN 3
    ELSE IF node.tag = "h3" \/ (node.tag = "h2" /\ HasClass(node, "c-article__sub-heading"))
    THEN 2 ELSE 0

\* the blocks of the first k children, the open one last: one block for the
\* section itself and one for each heading, each with the paragraphs between
\* its heading and the next one
SegmentsOf(k) ==
    LET nodes == walk.nodes
        IsHead(j) == OpensLevel(nodes[j]) > 0
        heads == <<0>> \o SelectSeq([j \in 1..k |-> j], IsHead)
        EndOf(n) == IF n < Len(heads) THEN heads[n + 1] ELSE k + 1
        Segment(h, e) ==
            LET Appended(j) ==
                    /\ j > h /\ j < e
                    /\ nodes[j].tag \in {"p", "div"}
                    /\ ~walk.inFigure
                    /\ CleanContentText(nodes[j]) # <<>>
                at == SelectSeq([j \in 1..k |-> j], Appended)
            IN  [level |-> IF h = 0 THEN 1 ELSE OpensLevel(nodes[h]),
                 title |-> IF h = 0 THEN walk.title ELSE ElementText(nodes[h]),
                 parts |-> SubSeq([n \in 1..Len(at) |-> CleanContentText(nodes[at[n]])],
                                  1, Len(at))]
    IN  SubSeq([n \in 1..Len(heads) |-> Segment(heads[n], EndOf(n))], 1, Len(heads))

\* the blocks a list of segments is flushed to: those with a title or a
\* paragraph, their paragraphs joined by blank lines
EmittedOf(segs) ==
    LET NonEmpty(sg) == sg.title # <<>> \/ sg.parts # <<>>
        kept == SelectSeq(segs, NonEmpty)
    IN  SubSeq([n \in 1..Len(kept) |->
                   [level |-> kept[n].level, title |-> kept[n].title,
                    content |-> Join(kept[n].parts, <<"\n", "\n">>)]], 1, Len(kept))

\* C21: at every point of the walk the cursor is the block opened by the
\* nearest preceding heading (the level-1 block of the section when there is
\* none) and holds the paragraphs appended since; the blocks emitted so far
\* are the earlier blocks that have a title or a paragraph, in document
\* order; after the last child the open block is flushed the same way, so
\* every appended paragraph is in exactly one block
C21_SectionWalk ==
    /\ walk.pc = "walk" =>
           LET segs == SegmentsOf(walk.i - 1)
           IN  /\ walk.cur = segs[Len(segs)]
               /\ walk.blocks = EmittedOf(SubSeq(segs, 1, Len(segs) - 1))
    /\ walk.pc \in {"flushed", "built"} =>
           walk.blocks = EmittedOf(SegmentsOf(Len(walk.nodes)))

\* a walk that met a paragraph, a sub-heading and a paragraph, and an h4
C21_Witness ==
    /\ walk.pc = "flushed"
    /\ Len(walk.blocks) = 3
    /\ walk.blocks[1].content = <<"a">>
    /\ walk.blocks[2].level = 2 /\ walk.blocks[2].content = <<"b">>
    /\ walk.blocks[3].level = 3

\* a block that holds two paragraphs
C21_WitnessTwoParagraphs ==
    /\ walk.pc = "flushed"
    /\ \E n \in DOMAIN walk.blocks : walk.blocks[n].content = <<"a", "\n", "\n", "b">>

\* the children the claim's reassembly gives a list of blocks: one level-2
\* Section for each level-2 block after the first block, in order, holding
\* the blocks between it and the next block that is not of level 3
NestedOf(blocks) ==
    LET n == Len(blocks)
        IsSecond(i) == i >= 2 /\ blocks[i].level = 2
        at == SelectSeq([i \in 1..n |-> i], IsSecond)
        RunEnd3(i) ==
            LET Stops(e) == e > i /\ (e = n + 1 \/ blocks[e].level # 3)
            IN  CHOOSE e \in (i + 1)..(n + 1) :
                    Stops(e) /\ \A f \in (i + 1)..(e - 1) : ~Stops(f)
        Third(b) == [title |-> b.title, level |-> 3, content |-> b.content,
                     children |-> <<>>]
        Second(i) ==
            [title |-> blocks[i].title, level |-> 2, content |-> blocks[i].content,
             children |-> SubSeq([m \in 1..(RunEnd3(i) - 1 - i) |-> Third(blocks[i + m])],
                                 1, RunEnd3(i) - 1 - i)]
    IN  SubSeq([k \in 1..Len(at) |-> Second(at[k])], 1, Len(at))

\* C22: the Section built for a section element has the section's title,
\* level 1 and the content of the first block; its children are the later
\* level-2 blocks in order, each holding exactly the run of level-3 blocks
\* that immediately follows it.  A paragraph, a sub-heading and a paragraph
\* give one level-1 Section holding the first paragraph, with one level-2
\* child holding the second
C22_Reassembly ==
    walk.pc = "built" =>
        /\ walk.section =
               <<[title |-> walk.title, level |-> 1,
                  content |-> IF walk.blocks = <<>> THEN <<>> ELSE walk.blocks[1].content,
                  children |-> NestedOf(walk.blocks)]>>
        /\ (/\ walk.title # <<>> /\ ~walk.inFigure /\ Len(walk.nodes) = 3
            /\ walk.nodes[1].tag = "p" /\ walk.nodes[1].text = <<"a">>
            /\ walk.nodes[2].tag = "h2" /\ HasClass(walk.nodes[2], "c-article__sub-heading")
            /\ walk.nodes[3].tag = "div" /\ walk.nodes[3].text = <<"b">>)
           => walk.section =
                  <<[title |-> walk.title, level |-> 1, content |-> <<"a">>,
                     children |-> <<[title |-> <<"S">>, level |-> 2, content |-> <<"b">>,
                                     children |-> <<>>]>>]>>

\* a Section with a level-2 child that holds two level-3 children
C22_Witness ==
    /\ walk.pc = "built"
    /\ Len(walk.section[1].children) = 1
    /\ Len(walk.section[1].children[1].children) = 2

\* the scenario of the claim: a paragraph, a sub-heading, a paragraph
C22_WitnessScenario ==
    /\ walk.pc = "built"
    /\ walk.section[1].content = <<"a">>
    /\ Len(walk.section[1].children) = 1
    /\ walk.section[1].children[1].content = <<"b">>
    /\ Len(walk.nodes) = 3

\* the titles and contents of a Section tree, a section before its children
RECURSIVE TreeBlocks(_)
TreeBlocks(secs) ==
    IF secs = <<>> THEN <<>>
    ELSE <<[level |-> Head(secs).level, title |-> Head(secs).title,
            content |-> Head(secs).content]>>
         \o TreeBlocks(Head(secs).children) \o TreeBlocks(Tail(secs))

\* C24: every block the walk flushed is in the Section tree exactly once, in
\* order: the first as the section's own title and content, the others as
\* children and grandchildren with their titles and contents
C24_NoBlockLost ==
    (walk.pc = "built" /\ walk.blocks # <<>>) =>
        TreeBlocks(walk.section) =
            <<[level |-> 1, title |-> walk.blocks[1].title,
               content |-> walk.blocks[1].content]>> \o Tail(walk.blocks)

(***************************************************************************)
(* Further claims about the parsers.                                       *)
(***************************************************************************)
\* the id an element carries in the source, <<>> when it has none
SourceId(el) ==
    IF GetAttr(el, "id", <<>>) # <<>> THEN GetAttr(el, "id", <<>>)
    ELSE IF docKind = "html" THEN GetAttr(el, "data-id", <<>>) ELSE <<>>

\* the ids the elements of a list carry are pairwise distinct
SourceIdsDistinct(els) ==
    \A i, j \in 1..Len(els) :
        (i # j /\ SourceId(els[i]) # <<>>) => SourceId(els[i]) # SourceId(els[j])

\* C25: when the ids the figures (tables) carry in the source are pairwise
\* distinct, the ids of Article.figures (Article.tables) are pairwise
\* distinct, also when figures with and without an id are mixed and an id of
\* the source has the form F<k> (T<k>)
C25_IdsDistinct ==
    Built =>
        /\ SourceIdsDistinct(DocFigures) =>
               \A i, j \in 1..Len(Figures) : i # j => Figures[i].id # Figures[j].id
        /\ SourceIdsDistinct(DocTables) =>
               \A i, j \in 1..Len(Tables) : i # j => Tables[i].id # Tables[j].id

\* C26: XMLParser.parse returns an Article for every well-formed document,
\* whatever the nesting depth of its sec elements and whatever their
\* disp-level attributes: it raises only when the input is not well-formed
C26_RaisesOnlyOnMalformed ==
    (parsePc = "done" /\ docKind = "xml" /\ doc # ParseError) =>
        parseOut.stage = "returned"

\* the element is a figure or table element of the parser's format
IsFloat(el) ==
    IF docKind = "xml" THEN IsTag(el, "fig") \/ IsTag(el, "table-wrap")
    ELSE el.tag \in {"figure", "table"}

\* el with the content of every figure and table element below it removed
RECURSIVE WithoutFloatContent(_)
WithoutFloatContent(el) ==
    LET n == Len(el.kids)
        Emptied(kid) ==
            IF IsFloat(kid) THEN [kid EXCEPT !.text = <<>>, !.kids = <<>>]
            ELSE WithoutFloatContent(kid)
    IN  [el EXCEPT !.kids = SubSeq([i \in 1..n |-> Emptied(el.kids[i])], 1, n)]

\* C27: no text located inside a figure or table element is in a
\* Section.content, for both parsers: the sections are those of the document
\* with the content of its figure and table elements removed, also for a
\* figure wrapped in a div of the content block or nested in an XML p
C27_NoFloatTextInSections ==
    Built =>
        parseOut.article.sections =
            IF docKind = "xml" THEN XmlParse(<<WithoutFloatContent(doc[1])>>).article.sections
            ELSE HtmlParse(WithoutFloatContent(doc[1])).article.sections

(***************************************************************************)
(* Claims about the command line.                                          *)
(***************************************************************************)
\* the batch run has ended with its summary line
BatchDone == run.cmd = "batch" /\ run.pc = "done" /\ run.files # <<>>

\* the names of the regular files among the files of the run, in their order
InputNames ==
    LET IsFile(p) == p.isfile
        fs == SelectSeq(run.files, IsFile)
    IN  SubSeq([n \in 1..Len(fs) |-> NameOf(fs[n])], 1, Len(fs))

LogNames == SubSeq([n \in 1..Len(run.log) |-> run.log[n].name], 1, Len(run.log))

\* when the run has ended every file has been reached, in sorted order,
\* whichever conversions raised; the last line is the summary; the converted
\* count is the number of conversions that completed; every file whose
\* conversion raised has a line that reports it
BatchOutcome ==
    BatchDone =>
        /\ LogNames = InputNames
        /\ run.echo # <<>> /\ run.echo[Len(run.echo)].kind = "summary"
        /\ run.echo[Len(run.echo)].counts[1] =
               Cardinality({n \in 1..Len(run.log) : run.log[n].result = "converted"})
        /\ \A n \in 1..Len(run.log) :
               run.log[n].result = "failed" =>
                   \E m \in 1..Len(run.echo) :
                       run.echo[m].kind = "failed" /\ run.echo[m].name = run.log[n].name

\* C23: in the batch command a failing document never aborts the run: every
\* remaining file is still reached in sorted order, the loop ends with the
\* summary line, the converted count is the number of files converted
\* without exception, and each failing file is reported
C23_BatchNeverAborts ==
    /\ []BatchOutcome
    /\ (run.cmd = "batch") ~> (run.pc = "done")

\* C28: in one batch run distinct input files are written to distinct output
\* paths: no output written earlier in the run is overwritten, none makes a
\* later input of the run be skipped, and the number of output files the run
\* produced is the converted count it reports, also for two inputs that
\* differ in their extension only
C28_DistinctOutputs ==
    BatchDone =>
        /\ \A i, j \in 1..Len(run.log) :
               (i < j /\ run.log[i].result = "converted"
                      /\ run.log[j].result \in {"converted", "skipped"})
                   => run.log[i].out # run.log[j].out
        /\ Cardinality({n \in OutNames : run.outdir[n] \notin {Absent, Old}}) = run.ok

\* outputs that exist are to be kept: arxiv_prism without --force, converter
\* with --skip-exist
Protecting == IF run.pkg = "arxiv_prism" THEN ~run.force ELSE run.skip_exist

\* batch is at a regular file whose output path exists
AtExistingInBatch ==
    /\ run.pc = "loop" /\ run.i <= Len(run.files)
    /\ run.files[run.i].isfile
    /\ run.outdir[run.files[run.i].stem \o run.ext] # Absent

\* convert is called with an output path that exists
AtExistingInConvert ==
    /\ run.pc = "start" /\ run.cmd = "convert"
    /\ run.output # <<>> /\ run.outdir[run.output[1]] # Absent

\* the step leaves the file unread and every output as it was; in batch it
\* counts the file as skipped and not as converted
LeavesUntouched ==
    /\ run'.outdir = run.outdir
    /\ \A n \in 1..Len(run'.log) : n > Len(run.log) => ~run'.log[n].read
    /\ run'.ok = run.ok
    /\ AtExistingInBatch => run'.skipped = run.skipped + 1

\* the step has converted the file
ConvertedNow == run'.log # run.log /\ run'.log[Len(run'.log)].result = "converted"

\* the statement as it stands: with --force (without --skip-exist) the file
\* is not skipped and the output is rewritten
ProtectedOrRewritten ==
    /\ AtExistingInBatch =>
           IF Protecting THEN LeavesUntouched
           ELSE /\ run'.skipped = run.skipped
                /\ run'.outdir[run.files[run.i].stem \o run.ext] = NameOf(run.files[run.i])
    /\ AtExistingInConvert =>
           IF Protecting THEN LeavesUntouched
           ELSE run'.outdir[run.output[1]] = NameOf(run.input_file[1])

\* with --force (without --skip-exist) the file is not skipped, and the
\* output is rewritten when the conversion of the file completes
ProtectedOrRewrittenOnSuccess ==
    /\ AtExistingInBatch =>
           IF Protecting THEN LeavesUntouched
           ELSE /\ run'.skipped = run.skipped
                /\ run'.log # run.log /\ run'.log[Len(run'.log)].result # "skipped"
                /\ ConvertedNow =>
                       run'.outdir[run.files[run.i].stem \o run.ext] = NameOf(run.files[run.i])
    /\ AtExistingInConvert =>
           IF Protecting THEN LeavesUntouched
           ELSE ConvertedNow => run'.outdir[run.output[1]] = NameOf(run.input_file[1])

C29_WitnessRewritten ==
    /\ BatchDone
    /\ ~Protecting
    /\ \E n \in OutNames : run.outdir0[n] = Old /\ run.outdir[n] \notin {Absent, Old}

\* convert has returned without touching an output that existed
C29_WitnessConvert ==
    /\ run.cmd = "convert" /\ run.pc = "done"
    /\ Protecting
    /\ run.output # <<>> /\ run.outdir[run.output[1]] = Old
    /\ run.log = <<>>

====
